---- MODULE Spec2Model ----
(***************************************************************************)
(* Deposit workflow engine of the bridging agent.                          *)
(*                                                                         *)
(* StateMachine.Start scans the state store on every tick and applies      *)
(* TransitionDeposit to every stored workflow; StateMachine.ProcessBlock   *)
(* seeds workflows through PutIfAbsent.  The chain adapters (EvmCtx and    *)
(* HlCtx) are the environment: every result they can return is a           *)
(* nondeterministic input of the visit.                                    *)
(*                                                                         *)
(* Time.  The code reads timestamps only through differences               *)
(* (now.Sub(wf.UpdatedAt), the settlement nonce time.Now() against the     *)
(* nonce of an earlier attempt), so a timestamp t is stored as the         *)
(* difference now - t, in whole seconds, saturated at MaxAge, where now is *)
(* the time.Now() Start read at its latest tick.  Writing "UpdatedAt =     *)
(* now" in the visitor is writing since = 0.  The next tick reads the wall *)
(* clock again, any number of seconds later (the ticker's period is only   *)
(* the usual gap: a scan that overruns, a late wake-up or downtime make it *)
(* longer, a tick that was buffered meanwhile makes it shorter), and adds  *)
(* the gap to every stored difference.  A record ProcessBlock writes       *)
(* between two ticks is stamped with a time.Now() of its own, after the    *)
(* latest tick: it carries since = -r, r being its position among the      *)
(* records written since that tick, and the next tick gives it a           *)
(* difference between 0 and the gap, no larger than that of a record       *)
(* written before it.                                                      *)
(***************************************************************************)
EXTENDS Integers, Sequences, FiniteSets, TLC

\* ------------------------------------------------------------------------
\* Bounds of the model
\* ------------------------------------------------------------------------
\* Differences of timestamps saturate here; at least Backoff(MaxAttempts-1).
MaxAge == 16
\* Number of times the engine process may be killed and started again.
MaxCrashes == 1
\* Highest number the finalized head reaches.
MaxHead == 3
\* Capacity of the publisher's block channel in the model (the program's
\* channel holds 20 blocks).
OutCap == 2
\* Number of requests the API serves, each on a connection of its own.
MaxRequests == 2

\* ------------------------------------------------------------------------
\* Program constants
\* ------------------------------------------------------------------------
Interval == 2
MaxAttempts == 5
\* capacity of the publisher's error channel
ErrCap == 1
\* minDepositWei = 10^18 wei; amounts are counted in units of 5*10^17 wei.
MinDepositWei == 2

Ethereum == "ethereum"
Hyperliquid == "hyperliquid"

StateSrcTxDiscovered == "SRC_TX_DISCOVERED"
StateSrcTxConfirmed == "SRC_TX_CONFIRMED"
StateDstTxBuilt == "DST_TX_BUILT"
StateDstTxSent == "DST_TX_SENT"
StateDstTxConfirmed == "DST_TX_CONFIRMED"
StateDstTxRejected == "DST_TX_REJECTED"
StateSweepTxBuilt == "SWEEP_TX_BUILT"
StateSweepTxSent == "SWEEP_TX_SENT"
StateSweepTxConfirmed == "SWEEP_TX_CONFIRMED"
StateSweepTxRejected == "SWEEP_TX_REJECTED"
StateDone == "DONE"
StateFailed == "FAILED"
StateDstTxResend == "DST_TX_RESEND"
StateSweepTxResend == "SWEEP_TX_RESEND"

State ==
  { StateSrcTxDiscovered, StateSrcTxConfirmed, StateDstTxBuilt, StateDstTxSent,
    StateDstTxConfirmed, StateDstTxRejected, StateSweepTxBuilt, StateSweepTxSent,
    StateSweepTxConfirmed, StateSweepTxRejected, StateDone, StateFailed,
    StateDstTxResend, StateSweepTxResend }

Min(a, b) == IF a < b THEN a ELSE b

\* sm.backoff: min(2^min(n,10) seconds, 2 minutes)
Backoff(n) == Min(2 ^ Min(n, 10), 120)

\* The chains of the map hotWallets that main passes to NewStateMachine
HotWallets == { Ethereum }

\* The chains of the map newStateMachineForTest passes to NewStateMachine
HotWalletsForTest == { Ethereum, Hyperliquid }

VARIABLE
  hotWallets        \* sm.hotWallets: the chains with a hot wallet, set by NewStateMachine

\* sm.getHotWallet: TRUE when a hot wallet is configured for the chain
GetHotWallet(wallets, chain) == chain \in wallets

\* ------------------------------------------------------------------------
\* Accounts, transactions and blocks fed to the agent
\* ------------------------------------------------------------------------
\* Accounts issued by the API (HandleGenerate accepts every pair of its
\* source and destination chains): a settlement-bound one, one from the
\* settlement chain to the EVM chain, and one within the EVM chain.
Accounts ==
  { [ DepositAddr |-> "D1", DstAddr |-> "U1", SrcChain |-> Ethereum, DstChain |-> Hyperliquid ],
    [ DepositAddr |-> "D2", DstAddr |-> "U2", SrcChain |-> Hyperliquid, DstChain |-> Ethereum ],
    [ DepositAddr |-> "D3", DstAddr |-> "U3", SrcChain |-> Ethereum, DstChain |-> Ethereum ] }

\* The finalized blocks the chain the publisher watches can hold, as
\* sequences of transactions: to = "nil" is a contract deployment, "X" is
\* not a deposit address.  A run is fed one of these chains.
Chains ==
  { << << [ hash |-> "0xT1", to |-> "D1", value |-> 3 ],
          [ hash |-> "0xT3", to |-> "nil", value |-> 3 ],
          [ hash |-> "0xT7", to |-> "D1", value |-> 3 ] >> >>,
    << << [ hash |-> "0xT4", to |-> "X", value |-> 3 ] >>,
       << [ hash |-> "0xT2", to |-> "D2", value |-> 4 ],
          [ hash |-> "0xT5", to |-> "D1", value |-> 2 ] >> >>,
    << << [ hash |-> "0xT6", to |-> "D3", value |-> 3 ] >> >> }

\* The chain fed to an engine that has a hot wallet on the settlement chain
ChainsForTest ==
  { << << [ hash |-> "0xT1", to |-> "D1", value |-> 3 ] >> >> }

\* The chains of the runs checked for termination: one block with one
\* deposit, bound for the settlement chain or for ethereum
LiveChains ==
  { << << [ hash |-> "0xT1", to |-> "D1", value |-> 3 ] >> >>,
    << << [ hash |-> "0xT6", to |-> "D3", value |-> 3 ] >> >> }

\* fmt.Sprintf("%s|%s", account.DepositAddr, tx.Hash().Hex())
DepositId(addr, hash) == addr \o "|" \o hash

\* The workflows the blocks of LiveChains seed
LiveIds == { DepositId(c[1][1].to, c[1][1].hash) : c \in LiveChains }

\* Every key the state store can hold, in the byte order of the bolt cursor.
SortedIds == << "D1|0xT1", "D1|0xT5", "D1|0xT7", "D2|0xT2", "D3|0xT6" >>
WfIds == { SortedIds[i] : i \in 1..Len(SortedIds) }

\* An account store that finds an account for every address
GetByDepositAddress_Unchecked(addr) == Accounts

\* stores.AccountStore.GetByDepositAddress: the matching accounts (none: ErrAccountNotFound)
GetByDepositAddress(addr) == { a \in Accounts : a.DepositAddr = addr }

\* ------------------------------------------------------------------------
\* Chain adapters (ChainCtx): the results a call can return
\* ------------------------------------------------------------------------
\* A result: res is "ok"/"err" for builds and broadcasts, "true"/"false"/
\* "rejected"/"err" for confirmations; tx is the built payload, hash the
\* returned identifier, acc tells whether the chain accepted the submission.
Result(res, tx, hash, acc) == [ res |-> res, tx |-> tx, hash |-> hash, acc |-> acc ]
NoCall == Result("none", "", "", FALSE)

\* EvmCtx.BuildSendTx: key, nonce, balance or gas lookups fail, or the
\* marshalled transaction (which holds the sender's pending nonce).
\* HlCtx.BuildSendTx: a pure conversion, it builds the spot-send action.
BuildSendTx(chain) ==
  IF chain = Hyperliquid
  THEN { Result("ok", "raw_hl_send", "", FALSE) }
  ELSE { Result("ok", "raw_evm_send", "", FALSE), Result("err", "", "", FALSE) }

\* EvmCtx.BuildSweepTx: lookups fail or balance <= gas cost, or the transaction.
\* HlCtx.BuildSweepTx: the balance query fails or is "0.0", or the action.
BuildSweepTx(chain) ==
  IF chain = Hyperliquid
  THEN { Result("ok", "raw_hl_sweep", "", FALSE), Result("err", "", "", FALSE) }
  ELSE { Result("ok", "raw_evm_sweep", "", FALSE), Result("err", "", "", FALSE) }

\* EvmCtx.BroadcastTx signs the payload as built, nonce included, and
\* returns signed.Hash().Hex().  The node takes the transaction only while
\* nothing signed with that nonce was taken before (fresh = TRUE); the call
\* can also fail before the submission, or after it (the reply is lost).
EvmBroadcastTx(fresh) ==
  { Result("err", "", "", FALSE) } \cup
  ( IF fresh
    THEN { Result("ok", "", "0xevmhash", TRUE), Result("err", "", "", TRUE) }
    ELSE {} )

\* HlCtx.BroadcastTx takes nonce := time.Now().UnixMilli() on every call,
\* signs and posts; it returns result.TxHash, which the exchange may omit.
\* The exchange takes the action when its nonce was not used before.
HlBroadcastTx(fresh) ==
  { Result("err", "", "", FALSE) } \cup
  ( IF fresh
    THEN { Result("ok", "", "0xhlhash", TRUE), Result("ok", "", "", TRUE),
           Result("err", "", "", TRUE) }
    ELSE {} )

\* Adapters whose confirmation check can fail on either chain
IsTxConfirmed_HlCanReject(chain) ==
  { Result("true", "", "", FALSE), Result("false", "", "", FALSE),
    Result("rejected", "", "", FALSE), Result("err", "", "", FALSE) }

\* EvmCtx.IsTxConfirmed: receipt missing (error), status not successful
\* (ErrorRejectedTransaction), head below receipt block + minConfirmations
\* (false), or true.  HlCtx.IsTxConfirmed returns true unconditionally.
IsTxConfirmed(chain) ==
  IF chain = Hyperliquid
  THEN { Result("true", "", "", FALSE) }
  ELSE { Result("true", "", "", FALSE), Result("false", "", "", FALSE),
         Result("rejected", "", "", FALSE), Result("err", "", "", FALSE) }

\* ------------------------------------------------------------------------
\* The transition function and the visitor of the scan
\* ------------------------------------------------------------------------
\* A visitor that skips Done records only
IsTerminal_DoneOnly(s) == s = StateDone

\* The first case of the visitor's switch: Done and Failed are left alone
IsTerminal(s) == s \in { StateDone, StateFailed }

\* The adapter operation TransitionDeposit invokes for a record in state s
\* ("" when it invokes none).
AdapterOp(s) ==
  CASE s \in { StateSrcTxDiscovered, StateDstTxResend } -> "dst.build_send"
    [] s = StateDstTxBuilt -> "dst.broadcast"
    [] s = StateDstTxSent -> "dst.is_confirmed"
    [] s \in { StateDstTxConfirmed, StateSweepTxResend } -> "src.build_sweep"
    [] s = StateSweepTxBuilt -> "src.broadcast"
    [] s = StateSweepTxSent -> "src.is_confirmed"
    [] OTHER -> ""

Transition(st, changed, err) == [ st |-> st, changed |-> changed, err |-> err ]

\* A wait that reports no error when the confirmations are still missing
AwaitConfirmations_WaitIsNoError(st, out, rejected, confirmed) ==
  IF out.res = "rejected"
  THEN Transition([ st EXCEPT !.State = rejected ], TRUE, "")
  ELSE IF out.res = "err"
  THEN Transition(st, FALSE, "error waiting for confirmations")
  ELSE IF out.res = "false"
  THEN Transition(st, FALSE, "")
  ELSE Transition([ st EXCEPT !.State = confirmed ], TRUE, "")

\* The StateDstTxSent and StateSweepTxSent cases of TransitionDeposit
AwaitConfirmations(st, out, rejected, confirmed) ==
  IF out.res = "rejected"
  THEN Transition([ st EXCEPT !.State = rejected ], TRUE, "")
  ELSE IF out.res = "err"
  THEN Transition(st, FALSE, "error waiting for confirmations")
  ELSE IF out.res = "false"
  THEN Transition(st, FALSE, "needs more confirmations")
  ELSE Transition([ st EXCEPT !.State = confirmed ], TRUE, "")

\* A retry path that sends a rejected destination credit to the sweep
Resend_ToSweep(st) ==
  Transition([ st EXCEPT !.State = StateSweepTxResend ], TRUE, "")

\* The StateDstTxRejected and StateSweepTxRejected cases of TransitionDeposit
Resend(st) ==
  IF st.State = StateDstTxRejected
  THEN Transition([ st EXCEPT !.State = StateDstTxResend ], TRUE, "")
  ELSE Transition([ st EXCEPT !.State = StateSweepTxResend ], TRUE, "")

\* A transition that stores the hash of the destination credit it broadcast
\* and leaves the workflow in DstTxBuilt
TransitionDeposit_SentNotRecorded(wallets, st, out) ==
  CASE st.State \in { StateSrcTxDiscovered, StateDstTxResend } ->
         IF ~GetHotWallet(wallets, st.DstChain)
         THEN Transition(st, FALSE, "no hot wallet for chain")
         ELSE IF out.res # "ok"
         THEN Transition(st, FALSE, "error building tx")
         ELSE Transition([ st EXCEPT !.UnsignedDstTx = out.tx, !.State = StateDstTxBuilt ], TRUE, "")
    [] st.State = StateDstTxBuilt ->
         IF ~GetHotWallet(wallets, st.DstChain)
         THEN Transition(st, FALSE, "no hot wallet for chain")
         ELSE IF out.res # "ok"
         THEN Transition(st, FALSE, "error signing tx")
         ELSE Transition([ st EXCEPT !.SentDstTxHash = out.hash ], TRUE, "")
    [] st.State = StateDstTxSent ->
         AwaitConfirmations(st, out, StateDstTxRejected, StateDstTxConfirmed)
    [] st.State \in { StateDstTxConfirmed, StateSweepTxResend } ->
         IF ~GetHotWallet(wallets, st.SrcChain)
         THEN Transition(st, FALSE, "no hot wallet for chain")
         ELSE IF out.res # "ok"
         THEN Transition(st, FALSE, "error building sweep tx")
         ELSE Transition([ st EXCEPT !.UnsignedSweepTx = out.tx, !.State = StateSweepTxBuilt ], TRUE, "")
    [] st.State = StateSweepTxBuilt ->
         IF out.res # "ok"
         THEN Transition(st, FALSE, "error signing tx")
         ELSE Transition([ st EXCEPT !.SentSweepTxHash = out.hash, !.State = StateSweepTxSent ], TRUE, "")
    [] st.State = StateSweepTxSent ->
         AwaitConfirmations(st, out, StateSweepTxRejected, StateSweepTxConfirmed)
    [] st.State = StateSweepTxConfirmed ->
         Transition([ st EXCEPT !.State = StateDone ], TRUE, "")
    [] st.State \in { StateDone, StateFailed } ->
         Transition(st, FALSE, "")
    [] st.State \in { StateDstTxRejected, StateSweepTxRejected } ->
         Resend(st)
    [] OTHER ->
         Transition(st, FALSE, "unknown state")

\* StateMachine.TransitionDeposit; out is the result of the adapter call it
\* makes.  It returns the mutated record, changed and the error ("" = nil).
TransitionDeposit(wallets, st, out) ==
  CASE st.State \in { StateSrcTxDiscovered, StateDstTxResend } ->
         IF ~GetHotWallet(wallets, st.DstChain)
         THEN Transition(st, FALSE, "no hot wallet for chain")
         ELSE IF out.res # "ok"
         THEN Transition(st, FALSE, "error building tx")
         ELSE Transition([ st EXCEPT !.UnsignedDstTx = out.tx, !.State = StateDstTxBuilt ], TRUE, "")
    [] st.State = StateDstTxBuilt ->
         IF ~GetHotWallet(wallets, st.DstChain)
         THEN Transition(st, FALSE, "no hot wallet for chain")
         ELSE IF out.res # "ok"
         THEN Transition(st, FALSE, "error signing tx")
         ELSE Transition([ st EXCEPT !.SentDstTxHash = out.hash, !.State = StateDstTxSent ], TRUE, "")
    [] st.State = StateDstTxSent ->
         AwaitConfirmations(st, out, StateDstTxRejected, StateDstTxConfirmed)
    [] st.State \in { StateDstTxConfirmed, StateSweepTxResend } ->
         IF ~GetHotWallet(wallets, st.SrcChain)
         THEN Transition(st, FALSE, "no hot wallet for chain")
         ELSE IF out.res # "ok"
         THEN Transition(st, FALSE, "error building sweep tx")
         ELSE Transition([ st EXCEPT !.UnsignedSweepTx = out.tx, !.State = StateSweepTxBuilt ], TRUE, "")
    [] st.State = StateSweepTxBuilt ->
         IF out.res # "ok"
         THEN Transition(st, FALSE, "error signing tx")
         ELSE Transition([ st EXCEPT !.SentSweepTxHash = out.hash, !.State = StateSweepTxSent ], TRUE, "")
    [] st.State = StateSweepTxSent ->
         AwaitConfirmations(st, out, StateSweepTxRejected, StateSweepTxConfirmed)
    [] st.State = StateSweepTxConfirmed ->
         Transition([ st EXCEPT !.State = StateDone ], TRUE, "")
    [] st.State \in { StateDone, StateFailed } ->
         Transition(st, FALSE, "")
    [] st.State \in { StateDstTxRejected, StateSweepTxRejected } ->
         Resend(st)
    [] OTHER ->
         Transition(st, FALSE, "unknown state")

\* A visitor that gives up one failed attempt early
VisitKind_CapOneLower(wf) ==
  IF IsTerminal(wf.State) THEN "terminal"
  ELSE IF wf.Attempts + 1 >= MaxAttempts THEN "exhausted"
  ELSE IF wf.since < Backoff(wf.Attempts) THEN "backoff"
  ELSE "transition"

\* A visitor that tests the backoff window before the attempt cap
VisitKind_BackoffFirst(wf) ==
  IF IsTerminal(wf.State) THEN "terminal"
  ELSE IF wf.since < Backoff(wf.Attempts) THEN "backoff"
  ELSE IF wf.Attempts >= MaxAttempts THEN "exhausted"
  ELSE "transition"

\* A visitor with no backoff window
VisitKind_NoBackoff(wf) ==
  IF IsTerminal(wf.State) THEN "terminal"
  ELSE IF wf.Attempts >= MaxAttempts THEN "exhausted"
  ELSE "transition"

\* What the visitor of Start does with a record before calling the
\* transition: "terminal" (return nil), "exhausted" (move to Failed),
\* "backoff" (return nil) or "transition".
VisitKind(wf) ==
  IF IsTerminal(wf.State) THEN "terminal"
  ELSE IF wf.Attempts >= MaxAttempts THEN "exhausted"
  ELSE IF wf.since < Backoff(wf.Attempts) THEN "backoff"
  ELSE "transition"

\* A visitor that persists a failed transition without counting it
Outcome_ErrorNotCounted(t) ==
  IF t.err # ""
  THEN [ put |-> TRUE, wf |-> [ t.st EXCEPT !.Error = t.err, !.since = 0 ] ]
  ELSE IF ~t.changed
  THEN [ put |-> FALSE, wf |-> t.st ]
  ELSE [ put |-> TRUE, wf |-> [ t.st EXCEPT !.Error = "", !.since = 0 ] ]

\* A visitor that stamps CreatedAt as well when it persists a change
Outcome_StampsCreation(t) ==
  IF t.err # ""
  THEN [ put |-> TRUE,
         wf |-> [ t.st EXCEPT !.Attempts = @ + 1, !.Error = t.err, !.since = 0 ] ]
  ELSE IF ~t.changed
  THEN [ put |-> FALSE, wf |-> t.st ]
  ELSE [ put |-> TRUE, wf |-> [ t.st EXCEPT !.Error = "", !.since = 0, !.age = 0 ] ]

\* What the visitor does with the result t of TransitionDeposit: on an
\* error it counts the attempt and persists, on no change it returns nil,
\* on a change it clears the error and persists.
Outcome(t) ==
  IF t.err # ""
  THEN [ put |-> TRUE,
         wf |-> [ t.st EXCEPT !.Attempts = @ + 1, !.Error = t.err, !.since = 0 ] ]
  ELSE IF ~t.changed
  THEN [ put |-> FALSE, wf |-> t.st ]
  ELSE [ put |-> TRUE, wf |-> [ t.st EXCEPT !.Error = "", !.since = 0 ] ]

\* The visitor passed to Scan by StateMachine.Start: put tells whether it
\* calls sm.states.Put, wf is the record it holds when it returns.
Visitor(wallets, wf, out) ==
  CASE VisitKind(wf) = "terminal" -> [ put |-> FALSE, wf |-> wf ]
    [] VisitKind(wf) = "exhausted" ->
         [ put |-> TRUE,
           wf |-> [ wf EXCEPT !.State = StateFailed, !.Error = "retries exhausted", !.since = 0 ] ]
    [] VisitKind(wf) = "backoff" -> [ put |-> FALSE, wf |-> wf ]
    [] OTHER -> Outcome(TransitionDeposit(wallets, wf, out))

\* ------------------------------------------------------------------------
\* State store
\* ------------------------------------------------------------------------
\* A PutIfAbsent that overwrites the record of an existing key
PutIfAbsent_Overwrite(st, job) ==
  IF job.ID \in DOMAIN st THEN [ st EXCEPT ![job.ID] = job ] ELSE st @@ (job.ID :> job)

\* A PutIfAbsent that returns nil without writing anything
PutIfAbsent_NoInsert(st, job) == st

\* LocalStateStore.PutIfAbsent: insert only when the key is not present
PutIfAbsent(st, job) == IF job.ID \in DOMAIN st THEN st ELSE st @@ (job.ID :> job)

\* LocalStateStore.Put: unconditional overwrite
Put(st, job) == IF job.ID \in DOMAIN st THEN [ st EXCEPT ![job.ID] = job ] ELSE st @@ (job.ID :> job)

\* A scan whose cursor runs over the bucket twice
Snapshot_Twice(st) ==
  LET present == SelectSeq(SortedIds, LAMBDA k : k \in DOMAIN st)
      twice == present \o present
  IN [ i \in 1..Len(twice) |-> st[twice[i]] ]

\* LocalStateStore.Scan: the records of the read transaction's snapshot, in key order
Snapshot(st) ==
  LET present == SelectSeq(SortedIds, LAMBDA k : k \in DOMAIN st)
  IN [ i \in 1..Len(present) |-> st[present[i]] ]

\* The keys of a sequence of records, in order
Keys(recs) == [ i \in 1..Len(recs) |-> recs[i].ID ]

\* The records of st written since the latest tick
Fresh(st) == { k \in DOMAIN st : st[k].since < 0 }

\* The seconds that can lie between the writing of each of nf records, in
\* the order they were written, and a tick at most m seconds after the
\* first of them (m is at most the ticker's period: larger differences are not told apart)
Offsets(nf, m) ==
  { f \in [ 1..nf -> 0..m ] : \A i \in 1..nf : \A j \in 1..nf : i < j => f[i] >= f[j] }

\* The seconds after which now - UpdatedAt of a record is not told apart
\* any more: the visitor compares it with Backoff(Attempts) only, and does
\* not read it at all for a terminal record, where one second is kept, to
\* tell a record written at the latest tick from an older one
Window(wf) == IF IsTerminal(wf.State) THEN 1 ELSE Min(MaxAge, Backoff(wf.Attempts))

\* The stored timestamps as the tick that fires dt seconds after the
\* latest one sees them; off gives the seconds since the writing of the
\* records written in between.  now - UpdatedAt (since) saturates at the
\* record's window; now - CreatedAt (age) is never read and saturates at
\* the ticker's period.
Aged(st, dt, off) ==
  [ k \in DOMAIN st |->
      IF st[k].since < 0
      THEN [ st[k] EXCEPT !.since = Min(off[-@], Window(st[k])),
                          !.age = Min(off[-@], Interval) ]
      ELSE [ st[k] EXCEPT !.since = Min(@ + dt, Window(st[k])),
                          !.age = Min(@ + dt, Interval) ] ]

\* ------------------------------------------------------------------------
\* Block processor
\* ------------------------------------------------------------------------
\* The DepositState ProcessBlock builds for a transaction paying an account
NewDeposit(account, tx) ==
  [ ID |-> DepositId(account.DepositAddr, tx.hash),
    TxHash |-> tx.hash,
    DepositAddr |-> account.DepositAddr,
    DstAddr |-> account.DstAddr,
    DstChain |-> account.DstChain,
    SrcChain |-> account.SrcChain,
    AmountWei |-> tx.value,
    State |-> StateSrcTxDiscovered,
    UnsignedDstTx |-> "",
    SentDstTxHash |-> "",
    UnsignedSweepTx |-> "",
    SentSweepTxHash |-> "",
    since |-> 0,
    age |-> 0,
    Attempts |-> 0,
    Error |-> "" ]

\* UpdatedAt: time.Now(), CreatedAt: time.Now() of a deposit built after
\* the latest tick, as the r-th record since
StampedNow(job, r) == [ job EXCEPT !.since = -r, !.age = -r ]

\* A block processor that writes the deposit with Put
ProcessTx_Put(st, tx) ==
  IF tx.to = "nil" THEN st
  ELSE IF GetByDepositAddress(tx.to) = {} THEN st
  ELSE LET account == CHOOSE a \in GetByDepositAddress(tx.to) : TRUE IN
       IF tx.value > MinDepositWei
       THEN Put(st, StampedNow(NewDeposit(account, tx), Cardinality(Fresh(st)) + 1))
       ELSE st

\* One iteration of the loop of ProcessBlock over block.Transactions(),
\* when the store calls it makes return no error
ProcessTx(st, tx) ==
  IF tx.to = "nil" THEN st
  ELSE IF GetByDepositAddress(tx.to) = {} THEN st
  ELSE LET account == CHOOSE a \in GetByDepositAddress(tx.to) : TRUE IN
       IF tx.value > MinDepositWei
       THEN PutIfAbsent(st, StampedNow(NewDeposit(account, tx), Cardinality(Fresh(st)) + 1))
       ELSE st

\* The store calls the iteration makes, each of which can return an error
\* that ProcessBlock returns: GetByDepositAddress for every transaction
\* with a recipient, PutIfAbsent for an accepted deposit
StoreCalls(tx) ==
  IF tx.to = "nil" THEN {}
  ELSE IF GetByDepositAddress(tx.to) = {} THEN { "GetByDepositAddress" }
  ELSE IF tx.value > MinDepositWei THEN { "GetByDepositAddress", "PutIfAbsent" }
  ELSE { "GetByDepositAddress" }

RECURSIVE ProcessTxs(_, _)
ProcessTxs(st, txs) ==
  IF txs = << >> THEN st ELSE ProcessTxs(ProcessTx(st, Head(txs)), Tail(txs))

VARIABLES
  blocks,           \* the blocks of the source chain, fixed during a run
  store,            \* LocalStateStore: id -> DepositState, for the stored ids
  engine,           \* StateMachine.Start: "waiting" (select), "scanning", "stopped", "returned" (with an error)
  scan,             \* records of the scan's snapshot not yet visited, in key order
  crashes,          \* number of times the engine process was killed
  calls,            \* history: id -> set of adapter operations invoked for it
  visited,          \* history: id -> set of states the stored record has had
  nvisits,          \* history: id -> visits not skipped by backoff since the stored state last changed
  lastVisit,        \* history: the visit just made by the scan
  snap0,            \* history: the keys the bucket held when the scan in progress opened its read transaction
  seen,             \* history: the keys the scan in progress passed to the visitor, in order
  dstAccepted,      \* chain: id -> broadcasts of the current dst payload accepted (saturating at 2)
  dstNonceAge,      \* chain: id -> now - nonce time of the last broadcast of the current dst payload (-1: none)
  dstNonceChanged,  \* history: id -> two broadcasts of one dst payload carried different nonces
  dstSurplus        \* history: id -> dst broadcasts that returned a hash minus entries into DstTxRejected

engineVars == << engine, scan, crashes >>
histVars == << calls, visited, nvisits, lastVisit >>
scanHist == << snap0, seen >>
chainVars == << dstAccepted, dstNonceAge, dstNonceChanged, dstSurplus >>
coreVars == << hotWallets, blocks, store, engine, scan, crashes, calls, visited, nvisits, lastVisit,
               snap0, seen, dstAccepted, dstNonceAge, dstNonceChanged, dstSurplus >>

\* The block publisher, its channels and the dispatcher loop of main
VARIABLES
  head,             \* chain: number of the finalized head
  pubPc,            \* BlockPublisher.Start: "start", "startErr", "select", "tickErr", "fetch", "send", "pubErr", "done"
  lastFinalized,    \* bp.lastFinalized
  current,          \* the head read by the tick in progress
  n,                \* the block number the batch loop is at
  outCh,            \* bp.out: block numbers buffered in the channel
  errCh,            \* bp.err: number of errors buffered in the channel
  closed,           \* both channels were closed by the deferred calls of Start
  cancelled,        \* ctx was cancelled
  dispRunning,      \* the dispatcher loop of main has not returned
  disp,             \* the dispatcher inside sm.ProcessBlock: the block (b = 0: it is in its select) and the index of the next transaction
  recv,             \* history: block numbers passed to ProcessBlock, in order
  firstHead,        \* history: the first finalized head the publisher read (-1: none)
  failedAt,         \* history: the block whose fetch failed last (-1: none)
  tickAt            \* history: bp.lastFinalized and the number of blocks published when the last batch began

pubVars == << head, pubPc, lastFinalized, current, n, outCh, errCh, closed, cancelled,
              dispRunning, disp, recv, firstHead, failedAt, tickAt >>

\* The address API and the account store
VARIABLES
  accById,          \* LocalAccountStore bucket accounts_by_id: id -> Account
  accByAddr,        \* LocalAccountStore bucket accounts_by_addr: deposit address -> id
  nkeys,            \* number of keys the key store has created
  reqs              \* the requests served by HandleGenerate, by connection

apiVars == << accById, accByAddr, nkeys, reqs >>

\* The key store under signing calls
VARIABLES
  unlocked,         \* keystore.KeyStore.unlocked: address -> the call whose TimedUnlock made the entry (0: locked)
  sigs              \* the calls of SignTx and SignHash, by caller

keyVars == << unlocked, sigs >>

\* The EVM chain as one call of the adapter reads it
VARIABLES
  evm,              \* chain: what the RPC lookups of the call return
  ret               \* the call made on that chain and what it returned

evmVars == << evm, ret >>

vars == << coreVars, pubVars, apiVars, keyVars, evmVars >>

NoVisit == [ id |-> "", op |-> "", res |-> "" ]

\* No batch was begun yet
NoBatch == [ last |-> -1, npub |-> 0 ]

\* The dispatcher is not inside ProcessBlock
NoBlock == [ b |-> 0, i |-> 0 ]

\* The publisher and the dispatcher before main starts them
PubIdle ==
  /\ head = 0
  /\ pubPc = "done"
  /\ lastFinalized = 0
  /\ current = 0
  /\ n = 0
  /\ outCh = << >>
  /\ errCh = 0
  /\ closed = FALSE
  /\ cancelled = FALSE
  /\ dispRunning = FALSE
  /\ disp = NoBlock
  /\ recv = << >>
  /\ firstHead = -1
  /\ failedAt = -1
  /\ tickAt = NoBatch

\* The API with no request received and empty account and key stores
ApiIdle ==
  /\ accById = << >>
  /\ accByAddr = << >>
  /\ nkeys = 0
  /\ reqs = << >>

\* Addresses the key store holds: "0xK1" was made by CreateKey under the
\* passphrase of the store, "0xK2" was imported under another password
KeyHolds == { "0xK1", "0xK2" }

NoSig == [ pc |-> "idle", op |-> "", addr |-> "", unl |-> 0, res |-> "" ]

\* The key store with every key locked and no signing call made
KeyIdle ==
  /\ unlocked = [ a \in KeyHolds |-> 0 ]
  /\ sigs = << >>

\* No lookup fails, nothing is on the chain
NoWorld == [ fail |-> "none", nonce |-> 0, balance |-> 0, gasPrice |-> 0, status |-> 0,
             rblock |-> 0, head |-> 0 ]

NoReturn == [ op |-> "", ok |-> FALSE, err |-> "", tx |-> << >> ]

\* No adapter call is followed
EvmIdle ==
  /\ evm = NoWorld
  /\ ret = NoReturn

\* The engine NewStateMachine builds with hot wallets on the chains
\* wallets, on an empty state store, when the chain holds the blocks chain
EngineOn(wallets, chain) ==
  /\ hotWallets = wallets
  /\ blocks = chain
  /\ store = << >>
  /\ engine = "waiting"
  /\ scan = << >>
  /\ crashes = 0
  /\ calls = [ w \in WfIds |-> {} ]
  /\ visited = [ w \in WfIds |-> {} ]
  /\ nvisits = [ w \in WfIds |-> 0 ]
  /\ lastVisit = NoVisit
  /\ snap0 = << >>
  /\ seen = << >>
  /\ dstAccepted = [ w \in WfIds |-> 0 ]
  /\ dstNonceAge = [ w \in WfIds |-> -1 ]
  /\ dstNonceChanged = [ w \in WfIds |-> FALSE ]
  /\ dstSurplus = [ w \in WfIds |-> 0 ]

\* The block numbers first..last, in order
Run(first, last) == [ i \in 1..( last - first + 1 ) |-> first + i - 1 ]

\* The startup anchor: one below the finalized head, when the head is not 0
Anchor(last, h) == IF h > 0 THEN h - 1 ELSE last

\* The finalized block number a successful getLatestFinalized can return
\* when the chain's finalized head is h: the node that answers has the
\* head or is one block behind it, so two calls in a row can see the
\* head move backwards.
Reported(h) == IF h > 0 THEN { h - 1, h } ELSE { h }

\* The publisher at rest in its select after it placed the blocks
\* first..last of a chain whose finalized head is last on the output
\* channel; the dispatcher has taken none of them yet
PubPublished(first, last) ==
  /\ head = last
  /\ pubPc = "select"
  /\ lastFinalized = last
  /\ current = last
  /\ n = last + 1
  /\ outCh = Run(first, last)
  /\ errCh = 0
  /\ closed = FALSE
  /\ cancelled = FALSE
  /\ dispRunning = TRUE
  /\ disp = NoBlock
  /\ recv = << >>
  /\ firstHead = first - 1
  /\ failedAt = -1
  /\ tickAt = [ last |-> first - 1, npub |-> 0 ]

\* The agent as main wires it, started before the first block of the chain
\* was finalized: the publisher anchored at 0 and has published every block
Init ==
  /\ \E chain \in Chains : EngineOn(HotWallets, chain)
  /\ PubPublished(1, Len(blocks))
  /\ ApiIdle /\ KeyIdle /\ EvmIdle

\* The agent as main wires it, on a chain of one deposit
LiveInit ==
  /\ \E chain \in LiveChains : EngineOn(HotWallets, chain)
  /\ PubPublished(1, Len(blocks))
  /\ ApiIdle /\ KeyIdle /\ EvmIdle

\* The same agent around an engine built as newStateMachineForTest builds it
InitForTest ==
  /\ \E chain \in ChainsForTest : EngineOn(HotWalletsForTest, chain)
  /\ PubPublished(1, Len(blocks))
  /\ ApiIdle /\ KeyIdle /\ EvmIdle

\* ------------------------------------------------------------------------
\* Actions
\* ------------------------------------------------------------------------
\* The process of the agent runs
ProcessUp == engine # "stopped"

\* The transactions of block number k
BlockAt(k) == IF k \in 1..Len(blocks) THEN blocks[k] ELSE << >>

\* main: case block, ok := <-publisher.Out() with ok: the dispatcher calls
\* sm.ProcessBlock(ctx, block), which enters its loop over the transactions
DispBlock ==
  /\ ProcessUp
  /\ dispRunning
  /\ disp = NoBlock
  /\ outCh # << >>
  /\ recv' = Append(recv, Head(outCh))
  /\ outCh' = Tail(outCh)
  /\ disp' = IF BlockAt(Head(outCh)) = << >> THEN NoBlock ELSE [ b |-> Head(outCh), i |-> 1 ]
  /\ UNCHANGED << head, pubPc, lastFinalized, current, n, errCh, closed, cancelled,
                  dispRunning, firstHead, failedAt >>
  /\ UNCHANGED tickAt
  /\ UNCHANGED << coreVars, apiVars, keyVars, evmVars >>

\* One iteration of the loop of StateMachine.ProcessBlock whose store calls
\* succeed (PutIfAbsent is one bolt transaction); after the last one
\* ProcessBlock returns nil and the dispatcher is back in its select
ProcessBlock ==
  /\ ProcessUp
  /\ disp # NoBlock
  /\ store' = ProcessTx(store, BlockAt(disp.b)[disp.i])
  /\ visited' = [ w \in WfIds |->
                    IF w \in DOMAIN store' \ DOMAIN store
                    THEN { StateSrcTxDiscovered } ELSE visited[w] ]
  /\ disp' = IF disp.i = Len(BlockAt(disp.b)) THEN NoBlock ELSE [ disp EXCEPT !.i = @ + 1 ]
  /\ UNCHANGED << hotWallets, blocks, engineVars, calls, nvisits, lastVisit, scanHist, chainVars >>
  /\ UNCHANGED << head, pubPc, lastFinalized, current, n, outCh, errCh, closed, cancelled,
                  dispRunning, recv, firstHead, failedAt, tickAt >>
  /\ UNCHANGED << apiVars, keyVars, evmVars >>

\* The process ends: every goroutine is gone, the bolt files stay
Exits ==
  /\ engine' = "stopped"
  /\ scan' = << >>
  /\ crashes' = crashes + 1
  /\ lastVisit' = NoVisit
  /\ snap0' = << >>
  /\ seen' = << >>
  /\ dispRunning' = FALSE
  /\ disp' = NoBlock
  /\ UNCHANGED << hotWallets, blocks, calls, visited, nvisits, chainVars >>
  /\ UNCHANGED << head, pubPc, lastFinalized, current, n, outCh, errCh, closed, cancelled,
                  recv, firstHead, failedAt, tickAt >>
  /\ UNCHANGED << apiVars, keyVars, evmVars >>

\* A store call of the iteration returns an error: ProcessBlock returns it
\* with the earlier deposits of the block stored, and main calls log.Fatalf
ProcessBlockFails ==
  /\ ProcessUp
  /\ disp # NoBlock
  /\ crashes < MaxCrashes
  /\ StoreCalls(BlockAt(disp.b)[disp.i]) # {}
  /\ store' = store
  /\ Exits

\* The seconds that lie between two ticks: none or one (a tick that was
\* buffered while the scan ran, a ticker that fires early), the ticker's
\* period, or any longer time (a scan that overran, downtime); longer gaps
\* that differ by the timestamps they leave are reached through ticks in
\* between, which find no record due
Gaps == { 0, 1, Interval, MaxAge }

\* The stored timestamps as a tick can see them that fires some number of
\* seconds of gaps after the latest one
AgedBy(gaps) ==
  UNION { { Aged(store, dt, off) :
              off \in Offsets(Cardinality(Fresh(store)), Min(dt, Interval)) } :
          dt \in gaps }

\* The ticker fires, some number of seconds of gaps after the latest tick:
\* now := time.Now(), and Scan opens its read transaction.
TickAfter(gaps) ==
  /\ engine = "waiting"
  /\ store' \in AgedBy(gaps)
  /\ scan' = Snapshot(store')
  /\ engine' = "scanning"
  /\ dstNonceAge' = [ w \in WfIds |-> IF dstNonceAge[w] < 0 THEN -1 ELSE 1 ]
  /\ lastVisit' = NoVisit
  /\ snap0' = Keys(scan')
  /\ seen' = << >>
  /\ UNCHANGED << hotWallets, blocks, crashes, calls, visited, nvisits, dstAccepted,
                  dstNonceChanged, dstSurplus >>
  /\ UNCHANGED << pubVars, apiVars, keyVars, evmVars >>

Tick == TickAfter(Gaps)

\* A tick at least a second after the latest one
TickLater == TickAfter(Gaps \ { 0 })

\* The results the adapter call of this visit can return (NoCall: no call is made)
Results(wf) ==
  IF VisitKind(wf) # "transition" THEN { NoCall }
  ELSE CASE AdapterOp(wf.State) = "dst.build_send" ->
              IF GetHotWallet(hotWallets, wf.DstChain) THEN BuildSendTx(wf.DstChain) ELSE { NoCall }
         [] AdapterOp(wf.State) = "dst.broadcast" ->
              IF ~GetHotWallet(hotWallets, wf.DstChain) THEN { NoCall }
              ELSE IF wf.DstChain = Hyperliquid
              THEN HlBroadcastTx(dstNonceAge[wf.ID] # 0)
              ELSE EvmBroadcastTx(dstAccepted[wf.ID] = 0)
         [] AdapterOp(wf.State) = "dst.is_confirmed" -> IsTxConfirmed(wf.DstChain)
         [] AdapterOp(wf.State) = "src.build_sweep" ->
              IF GetHotWallet(hotWallets, wf.SrcChain) THEN BuildSweepTx(wf.SrcChain) ELSE { NoCall }
         [] AdapterOp(wf.State) = "src.broadcast" ->
              IF wf.SrcChain = Hyperliquid THEN HlBroadcastTx(TRUE) ELSE EvmBroadcastTx(TRUE)
         [] AdapterOp(wf.State) = "src.is_confirmed" -> IsTxConfirmed(wf.SrcChain)
         [] OTHER -> { NoCall }

\* One call of the visitor, on the next record of the snapshot, with the
\* adapter returning out.  persist = FALSE is the process dying after the
\* adapter call and before sm.states.Put.
VisitWith(out, persist) ==
  LET wf == Head(scan)
      id == wf.ID
      op == IF out = NoCall THEN "" ELSE AdapterOp(wf.State)
      v == Visitor(hotWallets, wf, out)
  IN
  /\ store' = IF v.put /\ persist THEN Put(store, v.wf) ELSE store
  /\ calls' = IF op = "" THEN calls ELSE [ calls EXCEPT ![id] = @ \cup { op } ]
  /\ visited' = [ visited EXCEPT ![id] = @ \cup { store'[id].State } ]
  /\ nvisits' = IF store'[id].State # store[id].State THEN [ nvisits EXCEPT ![id] = 0 ]
                ELSE IF persist /\ VisitKind(wf) \in { "exhausted", "transition" }
                THEN [ nvisits EXCEPT ![id] = Min(@ + 1, MaxAttempts + 1) ]
                ELSE nvisits
  /\ lastVisit' = [ id |-> id, op |-> IF op = "" THEN VisitKind(wf) ELSE op, res |-> out.res ]
  /\ dstAccepted' =
       IF op = "dst.broadcast" /\ out.acc THEN [ dstAccepted EXCEPT ![id] = Min(@ + 1, 2) ]
       ELSE IF op = "dst.build_send" /\ out.res = "ok" /\ persist THEN [ dstAccepted EXCEPT ![id] = 0 ]
       ELSE dstAccepted
  /\ dstNonceAge' =
       IF op = "dst.broadcast" THEN [ dstNonceAge EXCEPT ![id] = 0 ]
       ELSE IF op = "dst.build_send" /\ out.res = "ok" /\ persist THEN [ dstNonceAge EXCEPT ![id] = -1 ]
       ELSE dstNonceAge
  /\ dstNonceChanged' =
       IF op = "dst.broadcast" /\ wf.DstChain = Hyperliquid /\ dstNonceAge[id] > 0
       THEN [ dstNonceChanged EXCEPT ![id] = TRUE ]
       ELSE dstNonceChanged
  /\ dstSurplus' =
       IF op = "dst.broadcast" /\ out.res = "ok" THEN [ dstSurplus EXCEPT ![id] = @ + 1 ]
       ELSE IF store'[id].State = StateDstTxRejected /\ store[id].State # StateDstTxRejected
       THEN [ dstSurplus EXCEPT ![id] = @ - 1 ]
       ELSE dstSurplus

\* A scan that never looks at its context
ScanProceeds_IgnoresCtx(done) == TRUE

\* The select at the top of the loop of Scan: the default branch is taken,
\* and the record visited, only while ctx is not done
ScanProceeds(done) == ~done

\* A scan that goes on after the visitor returned an error
AfterVisit_Continues(failed) == "scanning"

\* Where Start is after a call of the visitor: an error of the visitor is
\* returned by Scan and then by Start
AfterVisit(failed) == IF failed THEN "returned" ELSE "scanning"

\* Scan calls the visitor on the next record
Visit ==
  /\ engine = "scanning"
  /\ scan # << >>
  /\ ScanProceeds(cancelled)
  /\ \E out \in Results(Head(scan)) : VisitWith(out, TRUE)
  /\ scan' = Tail(scan)
  /\ seen' = Append(seen, Head(scan).ID)
  /\ UNCHANGED << hotWallets, blocks, engine, crashes, snap0 >>
  /\ UNCHANGED << pubVars, apiVars, keyVars, evmVars >>

\* Scan returns nil and Start goes back to its select
ScanEnd ==
  /\ engine = "scanning"
  /\ scan = << >>
  /\ engine' = "waiting"
  /\ lastVisit' = NoVisit
  /\ snap0' = << >>
  /\ seen' = << >>
  /\ UNCHANGED << hotWallets, blocks, store, scan, crashes, calls, visited, nvisits, chainVars >>
  /\ UNCHANGED << pubVars, apiVars, keyVars, evmVars >>

\* The process is killed between two steps of the engine and the dispatcher
Crash ==
  /\ ProcessUp
  /\ crashes < MaxCrashes
  /\ store' = store
  /\ Exits

\* The process is killed inside a visit, after the adapter call returned
\* and before the record is persisted
CrashInVisit ==
  /\ engine = "scanning"
  /\ scan # << >>
  /\ crashes < MaxCrashes
  /\ ScanProceeds(cancelled)
  /\ \E out \in Results(Head(scan)) : out # NoCall /\ VisitWith(out, FALSE)
  /\ engine' = "stopped"
  /\ scan' = << >>
  /\ crashes' = crashes + 1
  /\ snap0' = << >>
  /\ seen' = << >>
  /\ dispRunning' = FALSE
  /\ disp' = NoBlock
  /\ UNCHANGED << hotWallets, blocks >>
  /\ UNCHANGED << head, pubPc, lastFinalized, current, n, outCh, errCh, closed, cancelled,
                  recv, firstHead, failedAt, tickAt >>
  /\ UNCHANGED << apiVars, keyVars, evmVars >>

\* The blocks the publisher of a new process places on its channel when the
\* finalized head is h: it anchors one below the head its startup call
\* reports, or at 0 when that call fails, and publishes from there on
Republished(h) ==
  { Run(a + 1, h) : a \in { 0 } \cup { Anchor(0, r) : r \in Reported(h) } }

\* The agent is started again on the same bolt files: a new engine, a new
\* dispatcher, and a publisher that publishes again from its anchor
Restart ==
  /\ engine = "stopped"
  /\ engine' = "waiting"
  /\ dispRunning' = TRUE
  /\ outCh' \in Republished(head)
  /\ recv' = << >>
  /\ UNCHANGED << hotWallets, blocks, store, scan, crashes, histVars, scanHist, chainVars >>
  /\ UNCHANGED << head, pubPc, lastFinalized, current, n, errCh, closed, cancelled, disp,
                  firstHead, failedAt, tickAt >>
  /\ UNCHANGED << apiVars, keyVars, evmVars >>

Next ==
  \/ DispBlock
  \/ ProcessBlock
  \/ ProcessBlockFails
  \/ Tick
  \/ Visit
  \/ ScanEnd
  \/ Crash
  \/ CrashInVisit
  \/ Restart

Spec == Init /\ [][Next]_vars

\* The engine built with a hot wallet on each chain
SpecForTest == InitForTest /\ [][Next]_vars

\* The dispatcher works through the blocks it is given, the engine keeps
\* ticking, with a second or more between two ticks again and again, and a
\* killed agent is started again
LiveSpec ==
  /\ LiveInit /\ [][Next]_vars
  /\ WF_vars(DispBlock) /\ WF_vars(ProcessBlock)
  /\ SF_vars(TickLater) /\ WF_vars(Visit) /\ WF_vars(ScanEnd) /\ WF_vars(Restart)

TypeOK ==
  /\ blocks \in Chains \cup ChainsForTest \cup LiveChains
  /\ hotWallets \in { HotWallets, HotWalletsForTest }
  /\ DOMAIN store \subseteq WfIds
  /\ \A w \in DOMAIN store :
       /\ store[w].ID = w
       /\ store[w].State \in State
       /\ store[w].Attempts \in 0..MaxAttempts
       /\ store[w].since \in -Len(SortedIds)..MaxAge
  /\ engine \in { "waiting", "scanning", "stopped" }
  /\ crashes \in 0..MaxCrashes
  /\ disp.b \in 0..Len(blocks)

\* ------------------------------------------------------------------------
\* Properties
\* ------------------------------------------------------------------------
Stored == DOMAIN store

\* The edges of the state machine as the design lists them
Edges ==
  { << StateSrcTxDiscovered, StateSrcTxConfirmed >>, << StateSrcTxDiscovered, StateFailed >>,
    << StateSrcTxConfirmed, StateDstTxBuilt >>, << StateDstTxResend, StateDstTxBuilt >>,
    << StateDstTxBuilt, StateDstTxSent >>,
    << StateDstTxSent, StateDstTxConfirmed >>, << StateDstTxSent, StateDstTxRejected >>,
    << StateDstTxRejected, StateDstTxResend >>,
    << StateDstTxConfirmed, StateSweepTxBuilt >>, << StateSweepTxResend, StateSweepTxBuilt >>,
    << StateSweepTxBuilt, StateSweepTxSent >>,
    << StateSweepTxSent, StateSweepTxConfirmed >>, << StateSweepTxSent, StateSweepTxRejected >>,
    << StateSweepTxRejected, StateSweepTxResend >>,
    << StateSweepTxConfirmed, StateDone >> }

\* The step is a completed call of the visitor on workflow w
VisitOf(w) ==
  /\ engine = "scanning" /\ engine' = "scanning"
  /\ scan # << >> /\ scan' = Tail(scan)
  /\ Head(scan).ID = w

\* C1: every change of a stored workflow's state follows an edge of the
\* state machine, or moves a non-terminal state to Failed on retry
\* exhaustion.
C1_StateFollowsEdges ==
  [][ \A w \in Stored :
        store'[w].State # store[w].State =>
          \/ << store[w].State, store'[w].State >> \in Edges
          \/ /\ store[w].State \notin { StateDone, StateFailed }
             /\ store'[w].State = StateFailed
             /\ store'[w].Error = "retries exhausted" ]_vars

\* C2: the destination credit is neither built nor broadcast before the
\* source transaction was confirmed, which is what moves a workflow from
\* SrcTxDiscovered to SrcTxConfirmed.
C2_NoCreditBeforeSrcConfirmed ==
  \A w \in Stored :
    calls[w] \cap { "dst.build_send", "dst.broadcast" } # {} =>
      StateSrcTxConfirmed \in visited[w]

\* C3: once a stored workflow is Done or Failed, no step of the engine and
\* no ProcessBlock changes its record: every field keeps its value and
\* UpdatedAt is not rewritten (the time since it only grows).
C3_TerminalIsFinal ==
  [][ \A w \in Stored :
        store[w].State \in { StateDone, StateFailed } =>
          /\ w \in DOMAIN store'
          /\ [ store'[w] EXCEPT !.since = 0 ] = [ store[w] EXCEPT !.since = 0 ]
          /\ store'[w].since >= store[w].since ]_vars

\* A terminal workflow was visited by a scan
C3_Witness ==
  /\ lastVisit.op = "terminal"
  /\ lastVisit.id \in Stored
  /\ store[lastVisit.id].State \in { StateDone, StateFailed }

\* C4: a persisted update that changed the state through the transition
\* has attempts = 0 and no last error; one made for a transition error has
\* attempts strictly greater than before.
C4_AttemptsResetOnChange ==
  [][ \A w \in Stored :
        VisitOf(w) =>
          /\ ( store'[w].State # store[w].State /\ store'[w].State # StateFailed ) =>
               ( store'[w].Attempts = 0 /\ store'[w].Error = "" )
          /\ ( store'[w].State = store[w].State /\ store'[w].Error # store[w].Error ) =>
               store'[w].Attempts > store[w].Attempts ]_vars

\* C5: a visit in which is_confirmed returns false without error leaves the
\* workflow's state and attempts as they were.
C5_WaitingIsNotAnAttempt ==
  [][ \A w \in Stored :
        ( VisitOf(w) /\ lastVisit'.res = "false" ) =>
          /\ store'[w].State = store[w].State
          /\ store'[w].Attempts = store[w].Attempts ]_vars

\* Workflow w never left SrcTxDiscovered except to Failed and the only
\* adapter operation ever invoked for it is dst.build_send: every call of
\* dst.build_send returned an error.
OnlyBuildFailures(w) ==
  /\ w \in Stored
  /\ visited[w] \subseteq { StateSrcTxDiscovered, StateFailed }
  /\ calls[w] = { "dst.build_send" }

\* C6: when dst.build_send fails on every call, max_attempts visits leave
\* the workflow Failed with "retries exhausted" (it is no longer in
\* SrcTxDiscovered), and dst.broadcast was never invoked.
C6_FailedAfterMaxAttemptsVisits ==
  \A w \in WfIds :
    OnlyBuildFailures(w) =>
      /\ store[w].State = StateSrcTxDiscovered => nvisits[w] < MaxAttempts
      /\ store[w].State = StateFailed => store[w].Error = "retries exhausted"
      /\ "dst.broadcast" \notin calls[w]

\* C6 as amended: when dst.build_send fails on every call, each of the
\* first max_attempts visits leaves the workflow in SrcTxDiscovered with
\* attempts equal to the number of visits, the visit after them moves it to
\* Failed with "retries exhausted", and dst.broadcast was never invoked.
C6_FailedOnVisitAfterMaxAttempts ==
  \A w \in WfIds :
    OnlyBuildFailures(w) =>
      /\ store[w].State = StateSrcTxDiscovered =>
           ( nvisits[w] <= MaxAttempts /\ store[w].Attempts = nvisits[w] )
      /\ store[w].State = StateFailed =>
           ( store[w].Error = "retries exhausted" /\ store[w].Attempts = MaxAttempts )
      /\ "dst.broadcast" \notin calls[w]

\* A workflow whose every dst.build_send failed has been moved to Failed
C6_Witness ==
  \E w \in WfIds :
    /\ OnlyBuildFailures(w)
    /\ store[w].State = StateFailed
    /\ store[w].Error = "retries exhausted"

DstSentOrLater ==
  { StateDstTxSent, StateDstTxConfirmed, StateDstTxRejected, StateDstTxResend,
    StateSweepTxBuilt, StateSweepTxSent, StateSweepTxConfirmed, StateSweepTxRejected,
    StateSweepTxResend, StateDone }

SweepSentOrLater ==
  { StateSweepTxSent, StateSweepTxConfirmed, StateSweepTxRejected, StateSweepTxResend,
    StateDone }

\* C7: a stored workflow in DstTxSent or a later state has a non-empty
\* sent_dst_tx_hash, and one in SweepTxSent or a later state has a
\* non-empty sent_sweep_tx_hash.
C7_SentHashIsSet ==
  \A w \in Stored :
    /\ store[w].State \in DstSentOrLater => store[w].SentDstTxHash # ""
    /\ store[w].State \in SweepSentOrLater => store[w].SentSweepTxHash # ""

\* C8: all broadcasts of one built destination payload carry the same
\* nonce, and the chain accepts at most one of them.
C8_OneAcceptedBroadcastPerPayload ==
  \A w \in WfIds : ~dstNonceChanged[w] /\ dstAccepted[w] <= 1

\* C9: every stored workflow eventually is Done or Failed.
C9_EveryWorkflowTerminates ==
  \A w \in LiveIds :
    ( w \in Stored ) ~> ( w \in Stored /\ store[w].State \in { StateDone, StateFailed } )

\* C9 as amended: every stored workflow eventually is Done or Failed, or
\* has one more of its transactions rejected; only a workflow whose
\* transactions are rejected again and again stays non-terminal for ever.
C9_TerminatesUnlessRejectedAgain ==
  \A w \in LiveIds :
    ( w \in Stored ) ~>
      ( w \in Stored /\ store[w].State \in { StateDone, StateFailed,
                                             StateDstTxRejected, StateSweepTxRejected } )

\* A workflow reached Done in a run in which the agent was killed and restarted
C9_Witness ==
  /\ crashes > 0
  /\ engine # "stopped"
  /\ \E w \in Stored : store[w].State = StateDone

\* C10: the sweep of a workflow is built and broadcast only after its
\* destination credit was confirmed: a workflow whose sweep was invoked or
\* whose state is one of the sweep states or Done has been in DstTxConfirmed.
C10_SweepOnlyAfterDstConfirmed ==
  \A w \in Stored :
    ( \/ store[w].State \in { StateSweepTxBuilt, StateSweepTxSent, StateSweepTxConfirmed,
                              StateSweepTxRejected, StateSweepTxResend, StateDone }
      \/ calls[w] \cap { "src.build_sweep", "src.broadcast" } # {} )
    => StateDstTxConfirmed \in visited[w]

\* A workflow went through the sweep and is Done
C10_Witness ==
  \E w \in Stored :
    /\ store[w].State = StateDone
    /\ { "src.build_sweep", "src.broadcast" } \subseteq calls[w]

\* The transactions of block b that pay a known account more than nothing
Deposits(b) ==
  { i \in 1..Len(blocks[b]) :
      GetByDepositAddress(blocks[b][i].to) # {} /\ blocks[b][i].value > 0 }

\* C11: when ProcessBlock has gone through a block and returns nil, every
\* transaction of it that pays the deposit address of a known account a
\* value greater than 0 has a workflow "<deposit_addr>|<tx_hash>"; a
\* workflow an iteration creates is in SrcTxDiscovered with attempts 0, the
\* transaction's value as amount and the account's addresses and chains.
C11_DepositCreatesWorkflow ==
  [][ /\ ( ProcessBlock /\ disp' = NoBlock ) =>
           \A i \in Deposits(disp.b) :
             DepositId(blocks[disp.b][i].to, blocks[disp.b][i].hash) \in DOMAIN store'
      /\ ProcessBlock =>
           \A id \in DOMAIN store' \ DOMAIN store :
             LET tx == blocks[disp.b][disp.i]
             IN /\ id = DepositId(tx.to, tx.hash)
                /\ store'[id].ID = id
                /\ store'[id].State = StateSrcTxDiscovered
                /\ store'[id].Attempts = 0
                /\ store'[id].AmountWei = tx.value
                /\ \E a \in Accounts :
                     /\ a.DepositAddr = tx.to
                     /\ store'[id].DepositAddr = a.DepositAddr
                     /\ store'[id].DstAddr = a.DstAddr
                     /\ store'[id].SrcChain = a.SrcChain
                     /\ store'[id].DstChain = a.DstChain ]_vars

\* C12: from every reachable store, ProcessBlock of a block followed by a
\* later ProcessBlock of the same block leaves the records of the first
\* call, and the first call adds exactly the workflows of the block's
\* deposits that were not stored.
C12_ProcessBlockIdempotent ==
  \A b \in 1..Len(blocks) :
    LET once == ProcessTxs(store, blocks[b]) IN
    /\ ProcessTxs(once, blocks[b]) = once
    /\ DOMAIN once = DOMAIN store \cup DOMAIN ProcessTxs(<< >>, blocks[b])
    /\ \A w \in DOMAIN store : once[w] = store[w]
    /\ \A dt \in { 0, Interval } :
         \A off \in Offsets(Cardinality(Fresh(once)), Min(dt, Interval)) :
           ProcessTxs(Aged(once, dt, off), blocks[b]) = Aged(once, dt, off)

\* The workflow of a processed block was advanced by the engine, and the
\* block can be delivered again
C12_Witness ==
  \E b \in 1..Len(blocks) :
    \E w \in DOMAIN ProcessTxs(<< >>, blocks[b]) :
      /\ w \in Stored
      /\ store[w].State = StateDstTxConfirmed
      /\ store[w].since > 0

\* C13: an iteration of ProcessBlock, at whatever point of a scan it runs,
\* leaves every stored record as it is, and no step takes a workflow that
\* left SrcTxDiscovered back to it.
C13_ProcessBlockKeepsRecords ==
  [][ /\ ProcessBlock =>
           \A w \in Stored : w \in DOMAIN store' /\ store'[w] = store[w]
      /\ \A w \in Stored :
           store[w].State # StateSrcTxDiscovered =>
             ( w \in DOMAIN store' /\ store'[w].State # StateSrcTxDiscovered ) ]_vars

\* After a restart the block of a deposit was delivered again and
\* ProcessBlock went through it in the middle of a scan, when the engine
\* had advanced the workflow of the deposit
C13_Witness ==
  /\ crashes > 0
  /\ engine = "scanning"
  /\ recv # << >>
  /\ disp = NoBlock
  /\ \E w \in DOMAIN ProcessTxs(<< >>, blocks[recv[Len(recv)]]) :
       w \in Stored /\ store[w].State = StateDstTxSent

\* C14: the records left to visit in a scan are of distinct workflows, a
\* visited workflow is not among the records left to visit, a record
\* written during the scan does not enter it, and a tick starts only when
\* the previous scan is over.
C14_OneVisitPerTick ==
  [][ /\ \A i \in 1..Len(scan) : \A j \in 1..Len(scan) :
           i < j => scan[i].ID # scan[j].ID
      /\ \A w \in Stored :
           VisitOf(w) => \A i \in 1..Len(scan') : scan'[i].ID # w
      /\ ( engine = "scanning" /\ engine' = "scanning" ) =>
           ( scan' = scan \/ scan' = Tail(scan) )
      /\ ( engine # "scanning" /\ engine' = "scanning" ) =>
           ( engine = "waiting" /\ scan = << >> ) ]_vars

\* A scan visited a workflow, wrote its record, and has nothing left to visit
C14_Witness ==
  /\ engine = "scanning"
  /\ scan = << >>
  /\ lastVisit.id \in Stored
  /\ lastVisit.op = "dst.build_send"
  /\ store[lastVisit.id].since = 0

\* ------------------------------------------------------------------------
\* Block publisher (BlockPublisher.Start) and the dispatcher loop of main
\* ------------------------------------------------------------------------
\* The engine of main with nothing to do: no block, empty state store
EngineIdle == EngineOn(HotWallets, << >>)

\* The chain the publisher reads: its first block holds a deposit, the
\* blocks after it hold no transaction
PubChain == << << [ hash |-> "0xT1", to |-> "D1", value |-> 3 ] >> >>

\* A batch that starts again at the last published block
FirstOfBatch_Same(last) == last

\* The first block number of a tick's batch
FirstOfBatch(last) == last + 1

\* A loop that advances lastFinalized whether or not block k was published
LastSeenAfter_Always(last, k, failed) == k

\* bp.lastFinalized after the loop body for block k: publishBlock failed
\* (break) or returned nil (bp.lastFinalized = k)
LastSeenAfter(last, k, failed) == IF failed THEN last ELSE k

\* A publisher that watches ctx.Done() only while it waits for a tick
ReturnPoints_TickOnly == { "select" }

\* The points of Start where a select has a ctx.Done() case that returns
ReturnPoints == { "startErr", "select", "tickErr", "pubErr" }

\* A tick that skips only when the head equals the last published block
SkipTick_OnlyEqual(cur, last) == cur = last

\* The test of a tick: current <= bp.lastFinalized, nothing to publish
SkipTick(cur, last) == cur <= last

\* A batch loop that stops one block before the head read by the tick
BatchContinues_StopsEarly(k, cur) == k < cur

\* The test of the batch loop: n <= current
BatchContinues(k, cur) == k <= cur

\* An output channel that always takes one more block
CanSend_Unbounded(ch) == TRUE

\* case bp.out <- block is ready: the buffered channel has a free slot
CanSend(ch) == Len(ch) < OutCap

\* What the RPC calls of the publisher can return
RpcResults == { "ok", "err" }

\* main has started the publisher and its own loop; the chain has finalized
\* one of the numbers heads of blocks
PubInit(heads) ==
  /\ head \in heads
  /\ pubPc = "start"
  /\ lastFinalized = 0
  /\ current = 0
  /\ n = 0
  /\ outCh = << >>
  /\ errCh = 0
  /\ closed = FALSE
  /\ cancelled = FALSE
  /\ dispRunning = TRUE
  /\ disp = NoBlock
  /\ recv = << >>
  /\ firstHead = -1
  /\ failedAt = -1
  /\ tickAt = NoBatch

\* The chain finalizes one more block
HeadAdvance ==
  /\ head < MaxHead
  /\ head' = head + 1
  /\ UNCHANGED << pubPc, lastFinalized, current, n, outCh, errCh, closed, cancelled,
                  dispRunning, disp, recv, firstHead, failedAt >>
  /\ UNCHANGED tickAt
  /\ UNCHANGED << coreVars, apiVars, keyVars, evmVars >>

\* The signal goroutine of main cancels ctx, the context the publisher, the
\* engine and the dispatcher share
Cancel ==
  /\ ProcessUp
  /\ ~cancelled
  /\ cancelled' = TRUE
  /\ UNCHANGED << head, pubPc, lastFinalized, current, n, outCh, errCh, closed,
                  dispRunning, disp, recv, firstHead, failedAt >>
  /\ UNCHANGED tickAt
  /\ UNCHANGED << coreVars, apiVars, keyVars, evmVars >>

\* Start before its loop: bp.lastFinalized is 0, the finalized head is read
PubStartup ==
  /\ ProcessUp
  /\ pubPc = "start"
  /\ \E r \in RpcResults :
       IF r = "ok"
       THEN \E h \in Reported(head) :
              /\ lastFinalized' = Anchor(lastFinalized, h)
              /\ firstHead' = h
              /\ pubPc' = "select"
       ELSE /\ pubPc' = "startErr"
            /\ UNCHANGED << lastFinalized, firstHead >>
  /\ UNCHANGED << head, current, n, outCh, errCh, closed, cancelled, dispRunning, disp,
                  recv, failedAt >>
  /\ UNCHANGED tickAt
  /\ UNCHANGED << coreVars, apiVars, keyVars, evmVars >>

\* case bp.err <- err of one of the three selects that emit an error
PubSendErr ==
  /\ ProcessUp
  /\ pubPc \in { "startErr", "tickErr", "pubErr" }
  /\ errCh < ErrCap
  /\ ~closed
  /\ errCh' = errCh + 1
  /\ pubPc' = "select"
  /\ UNCHANGED << head, lastFinalized, current, n, outCh, closed, cancelled,
                  dispRunning, disp, recv, firstHead, failedAt >>
  /\ UNCHANGED tickAt
  /\ UNCHANGED << coreVars, apiVars, keyVars, evmVars >>

\* case <-ctx.Done(): return ctx.Err(); the deferred calls close both channels
PubReturn ==
  /\ ProcessUp
  /\ cancelled
  /\ pubPc \in ReturnPoints
  /\ pubPc' = "done"
  /\ closed' = TRUE
  /\ UNCHANGED << head, lastFinalized, current, n, outCh, errCh, cancelled,
                  dispRunning, disp, recv, firstHead, failedAt >>
  /\ UNCHANGED tickAt
  /\ UNCHANGED << coreVars, apiVars, keyVars, evmVars >>

\* case <-ticker.C: the finalized head is read and the batch loop entered
PubTick ==
  /\ ProcessUp
  /\ pubPc = "select"
  /\ \E r \in RpcResults :
       IF r = "err"
       THEN /\ pubPc' = "tickErr"
            /\ UNCHANGED << current, n, firstHead, tickAt >>
       ELSE \E h \in Reported(head) :
              /\ current' = h
              /\ firstHead' = IF firstHead = -1 THEN h ELSE firstHead
              /\ IF SkipTick(h, lastFinalized)
                 THEN pubPc' = "select" /\ n' = n /\ tickAt' = tickAt
                 ELSE /\ pubPc' = "fetch" /\ n' = FirstOfBatch(lastFinalized)
                      /\ tickAt' = [ last |-> lastFinalized, npub |-> Len(recv) + Len(outCh) ]
  /\ UNCHANGED << head, lastFinalized, outCh, errCh, closed, cancelled, dispRunning, disp,
                  recv, failedAt >>
  /\ UNCHANGED << coreVars, apiVars, keyVars, evmVars >>

\* publishBlock: client.BlockByNumber(n)
PubFetch ==
  /\ ProcessUp
  /\ pubPc = "fetch"
  /\ \E r \in RpcResults :
       IF r = "err"
       THEN /\ pubPc' = "pubErr"
            /\ lastFinalized' = LastSeenAfter(lastFinalized, n, TRUE)
            /\ failedAt' = n
       ELSE /\ pubPc' = "send"
            /\ UNCHANGED << lastFinalized, failedAt >>
  /\ UNCHANGED << head, current, n, outCh, errCh, closed, cancelled, dispRunning, disp,
                  recv, firstHead >>
  /\ UNCHANGED tickAt
  /\ UNCHANGED << coreVars, apiVars, keyVars, evmVars >>

\* publishBlock: case bp.out <- block, then bp.lastFinalized = n and n++
PubSend ==
  /\ ProcessUp
  /\ pubPc = "send"
  /\ CanSend(outCh)
  /\ outCh' = Append(outCh, n)
  /\ lastFinalized' = LastSeenAfter(lastFinalized, n, FALSE)
  /\ n' = n + 1
  /\ pubPc' = IF BatchContinues(n + 1, current) THEN "fetch" ELSE "select"
  /\ UNCHANGED << head, current, errCh, closed, cancelled, dispRunning, disp, recv,
                  firstHead, failedAt >>
  /\ UNCHANGED tickAt
  /\ UNCHANGED << coreVars, apiVars, keyVars, evmVars >>

\* publishBlock: case <-ctx.Done(), it returns ctx.Err() to the batch loop
PubSendCancelled ==
  /\ ProcessUp
  /\ pubPc = "send"
  /\ cancelled
  /\ pubPc' = "pubErr"
  /\ lastFinalized' = LastSeenAfter(lastFinalized, n, TRUE)
  /\ UNCHANGED << head, current, n, outCh, errCh, closed, cancelled, dispRunning, disp,
                  recv, firstHead, failedAt >>
  /\ UNCHANGED tickAt
  /\ UNCHANGED << coreVars, apiVars, keyVars, evmVars >>

\* main: case err, ok := <-publisher.Err() with ok, the error is logged
DispErr ==
  /\ ProcessUp
  /\ dispRunning
  /\ disp = NoBlock
  /\ errCh > 0
  /\ errCh' = errCh - 1
  /\ UNCHANGED << head, pubPc, lastFinalized, current, n, outCh, closed, cancelled,
                  dispRunning, disp, recv, firstHead, failedAt >>
  /\ UNCHANGED tickAt
  /\ UNCHANGED << coreVars, apiVars, keyVars, evmVars >>

\* main returns from its loop: a channel is closed and drained, or ctx is
\* done.  The return of main ends the process and every goroutine with it
DispStop ==
  /\ ProcessUp
  /\ dispRunning
  /\ disp = NoBlock
  /\ \/ cancelled
     \/ closed /\ outCh = << >>
     \/ closed /\ errCh = 0
  /\ store' = store
  /\ Exits

\* publisher.Start has returned, always with ctx.Err(): the goroutine of
\* main that called it ends the process with log.Fatalf
PubFatal ==
  /\ ProcessUp
  /\ pubPc = "done"
  /\ closed
  /\ store' = store
  /\ Exits

\* a.Start, the ListenAndServe of the API server, has returned the error of
\* its listener (main never shuts the server down): the goroutine of main
\* that called it ends the process with log.Fatalf, wherever the publisher,
\* the engine and the loop of main are
ApiFatal ==
  /\ ProcessUp
  /\ store' = store
  /\ Exits

\* The process ends while the visitor of the scan is between its call of
\* TransitionDeposit and sm.states.Put: main returns from its loop, or one
\* of its goroutines calls log.Fatalf (the publisher has returned,
\* ProcessBlock returns an error, or the API server has stopped, which can
\* happen at any time).  What the adapter call did on the chain stays, the
\* record the visitor holds is lost.
ExitInVisit ==
  /\ engine = "scanning"
  /\ scan # << >>
  /\ \E out \in Results(Head(scan)) :
       /\ out # NoCall \/ Visitor(hotWallets, Head(scan), out).put
       /\ VisitWith(out, FALSE)
  /\ engine' = "stopped"
  /\ scan' = << >>
  /\ crashes' = crashes + 1
  /\ snap0' = << >>
  /\ seen' = << >>
  /\ dispRunning' = FALSE
  /\ disp' = NoBlock
  /\ UNCHANGED << hotWallets, blocks >>
  /\ UNCHANGED << head, pubPc, lastFinalized, current, n, outCh, errCh, closed, cancelled,
                  recv, firstHead, failedAt, tickAt >>
  /\ UNCHANGED << apiVars, keyVars, evmVars >>

\* The select of Start takes <-ctx.Done() and Start returns ctx.Err()
StartCancelled ==
  /\ engine = "waiting"
  /\ cancelled
  /\ engine' = "returned"
  /\ lastVisit' = [ id |-> "", op |-> "select", res |-> "context canceled" ]
  /\ UNCHANGED << hotWallets, blocks, store, scan, crashes, calls, visited, nvisits, scanHist, chainVars >>
  /\ UNCHANGED << pubVars, apiVars, keyVars, evmVars >>

\* sm.Start has returned an error: the goroutine of main that called it
\* ends the process with log.Fatalf
EngineFatal ==
  /\ engine = "returned"
  /\ store' = store
  /\ Exits

\* Scan returns an error of its own and Start returns it: the ticker fires
\* and db.View fails to open the read transaction, or, with ctx not done,
\* json.Unmarshal fails on the next record of the cursor, after the visits
\* of the records before it and without a call of the visitor
ScanFails ==
  /\ \/ engine = "waiting"
     \/ engine = "scanning" /\ scan # << >> /\ ScanProceeds(cancelled)
  /\ engine' = "returned"
  /\ scan' = << >>
  /\ lastVisit' = [ id |-> "", op |-> "scan", res |-> "err" ]
  /\ UNCHANGED << hotWallets, blocks, store, crashes, calls, visited, nvisits, scanHist, chainVars >>
  /\ UNCHANGED << pubVars, apiVars, keyVars, evmVars >>

\* The select of Scan takes <-ctx.Done() before the next record: Scan
\* returns ctx.Err(), the read transaction is closed and Start returns
ScanCancelled ==
  /\ engine = "scanning"
  /\ scan # << >>
  /\ ~ScanProceeds(cancelled)
  /\ engine' = "returned"
  /\ scan' = << >>
  /\ lastVisit' = [ id |-> "", op |-> "scan", res |-> "context canceled" ]
  /\ UNCHANGED << hotWallets, blocks, store, crashes, calls, visited, nvisits, scanHist, chainVars >>
  /\ UNCHANGED << pubVars, apiVars, keyVars, evmVars >>

\* The visitor is called on the next record and its sm.states.Put returns
\* an error: the record the visitor changed is not written
VisitPutFails ==
  /\ engine = "scanning"
  /\ scan # << >>
  /\ ScanProceeds(cancelled)
  /\ \E out \in Results(Head(scan)) : Visitor(hotWallets, Head(scan), out).put /\ VisitWith(out, FALSE)
  /\ engine' = AfterVisit(TRUE)
  /\ scan' = IF AfterVisit(TRUE) = "scanning" THEN Tail(scan) ELSE << >>
  /\ seen' = Append(seen, Head(scan).ID)
  /\ UNCHANGED << hotWallets, blocks, crashes, snap0 >>
  /\ UNCHANGED << pubVars, apiVars, keyVars, evmVars >>

\* The agent as main runs it: the chain, the signal goroutine, the
\* publisher, the loop of main with ProcessBlock, the engine, and the ends
\* of the process
PubNext ==
  \/ HeadAdvance
  \/ Cancel
  \/ PubStartup
  \/ PubSendErr
  \/ PubReturn
  \/ PubTick
  \/ PubFetch
  \/ PubSend
  \/ PubSendCancelled
  \/ DispBlock
  \/ ProcessBlock
  \/ ProcessBlockFails
  \/ DispErr
  \/ DispStop
  \/ PubFatal
  \/ Tick
  \/ Visit
  \/ ScanEnd
  \/ StartCancelled
  \/ ScanFails
  \/ ScanCancelled
  \/ VisitPutFails
  \/ ExitInVisit
  \/ EngineFatal
  \/ ApiFatal

PubTypeOK ==
  /\ head \in 0..MaxHead
  /\ pubPc \in { "start", "startErr", "select", "tickErr", "fetch", "send", "pubErr", "done" }
  /\ lastFinalized \in 0..MaxHead
  /\ Len(outCh) <= OutCap
  /\ errCh \in 0..ErrCap
  /\ closed \in BOOLEAN /\ cancelled \in BOOLEAN /\ dispRunning \in BOOLEAN

\* The block numbers in seq are consecutive and increasing
Consecutive(seq) == \A i \in 1..(Len(seq) - 1) : seq[i + 1] = seq[i] + 1

\* C15: the block numbers passed to ProcessBlock, followed by those still
\* in the output channel, are strictly increasing and consecutive.
C15_BlocksInOrder ==
  /\ Consecutive(recv \o outCh)
  /\ ( recv \o outCh # << >> ) => ( recv \o outCh )[ Len(recv \o outCh) ] = lastFinalized

\* Blocks were delivered in several batches, one of which a fetch error cut short
C15_Witness ==
  /\ Len(recv) >= 3
  /\ failedAt # -1
  /\ failedAt <= recv[Len(recv)]

\* C16: no block published is lower than the first finalized head the
\* publisher read.
C16_NothingBelowFirstHead ==
  firstHead # -1 =>
    \A i \in 1..Len(recv \o outCh) : ( recv \o outCh )[i] >= firstHead

\* C17: a failed fetch of block n leaves lastFinalized at n - 1 and what
\* was published as it is, the error is then sent on the error channel (or
\* the publisher returns on cancellation) and the batch is left, and the
\* next batch starts at lastFinalized + 1.
C17_FetchErrorRetriesSameBlock ==
  [][ /\ ( pubPc = "fetch" /\ pubPc' # "fetch" /\ pubPc' # "send" ) =>
           /\ pubPc' = "pubErr"
           /\ lastFinalized' = lastFinalized /\ lastFinalized = n - 1
           /\ outCh' = outCh /\ recv' = recv /\ n' = n
      /\ ( pubPc = "pubErr" /\ pubPc' # "pubErr" ) =>
           /\ lastFinalized' = lastFinalized /\ lastFinalized = n - 1
           /\ outCh' = outCh
           /\ \/ pubPc' = "select" /\ errCh' = errCh + 1
              \/ pubPc' = "done" /\ cancelled
      /\ ( pubPc = "select" /\ pubPc' = "fetch" ) => n' = lastFinalized + 1 ]_vars

\* With lastFinalized = 0 and head 3 the fetch of block 2 failed: 1 was
\* published and stayed so, and a later tick published 2 and 3
C17_Witness ==
  /\ failedAt = 2
  /\ firstHead = 1
  /\ recv = << 1, 2, 3 >>
  /\ lastFinalized = 3

\* C18 as claimed: once ctx is cancelled the publisher returns with both
\* channels closed, and the dispatcher that reads the channels stops then.
C18_CancelClosesChannels ==
  /\ cancelled ~> ( pubPc = "done" /\ closed )
  /\ closed ~> ~dispRunning

\* C18 as amended: once ctx is cancelled the publisher returns with both
\* channels closed, from every point of its loop, unless the process ends
\* before it does (main returns on its own ctx.Done() case, or a goroutine
\* of main calls log.Fatalf); once the channels are closed the dispatcher
\* that reads them stops.
C18_CancelStopsPublisher ==
  /\ ( cancelled /\ ProcessUp ) ~> ( ( pubPc = "done" /\ closed ) \/ ~ProcessUp )
  /\ ( closed /\ ProcessUp ) ~> ~dispRunning

\* The publisher returned on cancellation while the block channel was full
\* and the dispatcher had stopped reading
C18_Witness ==
  /\ cancelled
  /\ pubPc = "done" /\ closed /\ ~dispRunning
  /\ Len(outCh) = OutCap
  /\ errCh = ErrCap

\* Every block placed on the output channel so far, in order
Published == recv \o outCh

\* C29: a batch that runs to its end, begun with bp.lastFinalized = L by a
\* tick that read the finalized head H > L, has published exactly the
\* blocks L + 1 .. H after what was published before, each once and in
\* increasing order, and leaves bp.lastFinalized = H; a batch begins at
\* L + 1 and only when H > L.
C29_BatchPublishesUpToHead ==
  [][ /\ ( pubPc = "select" /\ pubPc' = "fetch" ) =>
           /\ current' > lastFinalized
           /\ n' = lastFinalized + 1
           /\ tickAt' = [ last |-> lastFinalized, npub |-> Len(Published) ]
      /\ ( pubPc = "send" /\ pubPc' = "select" ) =>
           /\ current > tickAt.last
           /\ Len(Published') = tickAt.npub + ( current - tickAt.last )
           /\ \A i \in 1..( current - tickAt.last ) :
                Published'[tickAt.npub + i] = tickAt.last + i
           /\ SubSeq(Published', 1, Len(Published)) = Published
           /\ lastFinalized' = current ]_vars

\* A batch of at least two blocks ran to its end with no fetch error before it
C29_Witness ==
  /\ pubPc = "select"
  /\ tickAt # NoBatch
  /\ failedAt = -1
  /\ current - tickAt.last >= 2
  /\ lastFinalized = current
  /\ Len(Published) = tickAt.npub + ( current - tickAt.last )

\* C30: a tick that reads a head not above bp.lastFinalized publishes
\* nothing and leaves bp.lastFinalized as it is; bp.lastFinalized never
\* decreases, changes only at startup or with a block placed on the output
\* channel, and equals the number of the last block placed there.
C30_LastSeenFollowsPublished ==
  [][ /\ lastFinalized' >= lastFinalized
      /\ ( pubPc = "select" /\ current' # current ) =>
           IF current' <= lastFinalized
           THEN pubPc' = "select" /\ Published' = Published /\ lastFinalized' = lastFinalized
           ELSE pubPc' = "fetch"
      /\ ( pubPc = "select" /\ pubPc' = "select" ) =>
           ( Published' = Published /\ lastFinalized' = lastFinalized )
      /\ Published' # Published =>
           /\ Published' = Append(Published, lastFinalized')
           /\ lastFinalized' = lastFinalized + 1
      /\ lastFinalized' # lastFinalized =>
           ( ( pubPc = "start" /\ Published = << >> ) \/ Published' # Published )
      /\ Published' # << >> => Published'[Len(Published')] = lastFinalized' ]_vars

\* After blocks were published a tick read a head below bp.lastFinalized
\* and skipped
C30_Witness ==
  /\ pubPc = "select"
  /\ Published # << >>
  /\ current < lastFinalized
  /\ Published[Len(Published)] = lastFinalized

\* C31: the output channel never holds more than its capacity; while it is
\* full the publisher stays in publishBlock with the fetched block until
\* the dispatcher takes a block or ctx is cancelled; the publisher leaves
\* publishBlock either with the fetched block appended to the channel and
\* bp.lastFinalized set to its number, or on cancellation with
\* bp.lastFinalized as it was; the batch loop never moves past a block that
\* was not placed on the channel.
C31_FullChannelBlocksPublisher ==
  [][ /\ Len(outCh) <= OutCap /\ Len(outCh') <= OutCap
      /\ ( pubPc = "send" /\ Len(outCh) = OutCap /\ ~cancelled ) =>
           /\ pubPc' = "send" /\ n' = n /\ lastFinalized' = lastFinalized
           /\ outCh' = outCh \/ ( outCh' = Tail(outCh) /\ recv' = Append(recv, Head(outCh)) )
      /\ ( pubPc = "send" /\ pubPc' # "send" ) =>
           \/ /\ outCh' = Append(outCh, n)
              /\ lastFinalized' = n
              /\ n' = n + 1
           \/ /\ cancelled
              /\ pubPc' = "pubErr"
              /\ outCh' = outCh /\ lastFinalized' = lastFinalized /\ n' = n
      /\ n' # n => ( pubPc = "select" \/ outCh' = Append(outCh, n) ) ]_vars

\* The publisher holds a fetched block while the channel is full and ctx is
\* not cancelled
C31_Witness ==
  /\ pubPc = "send"
  /\ Len(outCh) = OutCap
  /\ ~cancelled
  /\ dispRunning
  /\ n = lastFinalized + 1

\* ------------------------------------------------------------------------
\* Address API (Api.HandleGenerate), account store and key store
\* ------------------------------------------------------------------------
\* a.srcChains, a.dstChains and a.assets as main configures them
SrcChainsCfg == { Ethereum, Hyperliquid }
DstChainsCfg == { Ethereum, Hyperliquid }
AssetsCfg == { "eth" }

\* common.HexToAddress(a).Hex() for the hex addresses of the model: the
\* EIP-55 checksummed spelling
ChecksumOf == ( "0xab" :> "0xAb" ) @@ ( "0xAB" :> "0xAb" ) @@ ( "0xcd" :> "0xCd" )

\* common.IsHexAddress
IsHexAddress(a) == a \in DOMAIN ChecksumOf

\* models.AccountID: "<src>:<dst>:<checksummed destination address>"
AccountID(src, dst, addr) == src \o ":" \o dst \o ":" \o ChecksumOf[addr]

\* A request: its method and strings.Split(strings.TrimPrefix(path, "/gen/"), "/")
Request(method, parts) == [ method |-> method, parts |-> parts ]

\* The requests a client can send; the path of a well-formed one is
\* /gen/:chain/:dst_chain/:asset/:dst_addr
RequestInputs ==
  { Request("GET", << Ethereum, Hyperliquid, "eth", "0xab" >>),
    Request("GET", << Ethereum, Hyperliquid, "eth", "0xAB" >>),
    Request("GET", << Hyperliquid, Ethereum, "eth", "0xcd" >>),
    Request("GET", << Ethereum, Ethereum, "eth", "0xcd" >>),
    Request("POST", << Ethereum, Hyperliquid, "eth", "0xab" >>),
    Request("GET", << Ethereum, Hyperliquid, "usdc" >>),
    Request("GET", << Ethereum, Hyperliquid, "eth", "0xab", "" >>),
    Request("GET", << "solana", Hyperliquid, "eth", "0xab" >>),
    Request("GET", << Ethereum, "solana", "eth", "0xab" >>),
    Request("GET", << Ethereum, Hyperliquid, "btc", "0xab" >>),
    Request("GET", << Ethereum, Hyperliquid, "eth", "zz" >>) }

\* The status HandleGenerate answers before it looks the account up (200: none)
Validate(in) ==
  IF in.method # "GET" THEN 405
  ELSE IF Len(in.parts) # 4 THEN 400
  ELSE IF in.parts[1] \notin SrcChainsCfg THEN 400
  ELSE IF in.parts[2] \notin DstChainsCfg THEN 400
  ELSE IF in.parts[3] \notin AssetsCfg THEN 400
  ELSE IF ~IsHexAddress(in.parts[4]) THEN 400
  ELSE 200

\* LocalKeyStore.CreateKey: the address of the k-th key created
KeyAddr(k) == "0xK" \o ToString(k)

\* models.NewAccount
NewAccount(src, dst, dstAddr, depositAddr) ==
  [ ID |-> AccountID(src, dst, dstAddr), SrcChain |-> src, DstChain |-> dst,
    DstAddr |-> ChecksumOf[dstAddr], DepositAddr |-> depositAddr ]

\* bolt Bucket.Put
BucketPut(bucket, k, v) ==
  IF k \in DOMAIN bucket THEN [ bucket EXCEPT ![k] = v ] ELSE bucket @@ ( k :> v )

NoRequest == [ pc |-> "idle", id |-> "", in |-> Request("", << >>), dep |-> "",
               status |-> 0, resp |-> "" ]

ApiInit ==
  /\ accById = << >>
  /\ accByAddr = << >>
  /\ nkeys = 0
  /\ reqs = [ i \in 1..MaxRequests |-> NoRequest ]

\* HandleGenerate from its start to the return of a.accounts.Get, which
\* finds the account, answers ErrAccountNotFound, or fails with another
\* error (500, before any key is created)
ApiReceive(i) ==
  /\ reqs[i].pc = "idle"
  /\ \E in \in RequestInputs, get \in { "ok", "err" } :
       IF Validate(in) # 200
       THEN reqs' = [ reqs EXCEPT ![i] = [ @ EXCEPT !.pc = "done", !.in = in,
                                                    !.status = Validate(in) ] ]
       ELSE LET id == AccountID(in.parts[1], in.parts[2], in.parts[4]) IN
            IF get = "err"
            THEN reqs' = [ reqs EXCEPT ![i] = [ @ EXCEPT !.pc = "done", !.in = in,
                                                         !.status = 500 ] ]
            ELSE IF id \in DOMAIN accById
            THEN reqs' = [ reqs EXCEPT ![i] = [ @ EXCEPT !.pc = "done", !.in = in, !.id = id,
                                                         !.status = 200,
                                                         !.resp = accById[id].DepositAddr ] ]
            ELSE reqs' = [ reqs EXCEPT ![i] = [ @ EXCEPT !.pc = "create", !.in = in, !.id = id ] ]
  /\ UNCHANGED << accById, accByAddr, nkeys >>
  /\ UNCHANGED << coreVars, pubVars, keyVars, evmVars >>

\* a.keys.CreateKey
ApiCreateKey(i) ==
  /\ reqs[i].pc = "create"
  /\ \E r \in { "ok", "err" } :
       IF r = "ok"
       THEN /\ nkeys' = nkeys + 1
            /\ reqs' = [ reqs EXCEPT ![i] = [ @ EXCEPT !.pc = "insert", !.dep = KeyAddr(nkeys + 1) ] ]
       ELSE /\ nkeys' = nkeys
            /\ reqs' = [ reqs EXCEPT ![i] = [ @ EXCEPT !.pc = "done", !.status = 500 ] ]
  /\ UNCHANGED << accById, accByAddr >>
  /\ UNCHANGED << coreVars, pubVars, keyVars, evmVars >>

\* models.NewAccount, a.accounts.Insert (one bolt transaction) and the response
ApiInsert(i) ==
  /\ reqs[i].pc = "insert"
  /\ \E r \in { "ok", "err" } :
       IF r = "ok"
       THEN LET in == reqs[i].in
                account == NewAccount(in.parts[1], in.parts[2], in.parts[4], reqs[i].dep)
            IN /\ accById' = BucketPut(accById, account.ID, account)
               /\ accByAddr' = BucketPut(accByAddr, account.DepositAddr, account.ID)
               /\ reqs' = [ reqs EXCEPT ![i] = [ @ EXCEPT !.pc = "done", !.status = 200,
                                                            !.resp = reqs[i].dep ] ]
       ELSE /\ UNCHANGED << accById, accByAddr >>
            /\ reqs' = [ reqs EXCEPT ![i] = [ @ EXCEPT !.pc = "done", !.status = 500 ] ]
  /\ nkeys' = nkeys
  /\ UNCHANGED << coreVars, pubVars, keyVars, evmVars >>

ApiNext ==
  \/ \E i \in 1..MaxRequests : ApiReceive(i)
  \/ \E i \in 1..MaxRequests : ApiCreateKey(i)
  \/ \E i \in 1..MaxRequests : ApiInsert(i)

ApiStart == EngineIdle /\ PubIdle /\ ApiInit /\ KeyIdle /\ EvmIdle

ApiSpec == ApiStart /\ [][ApiNext]_vars

\* C19: all requests for one (src_chain, dst_chain, user_dst_addr) that
\* were answered with an address got the same address, and at most one key
\* was created for the tuple.
C19_IssuanceIdempotent ==
  \A i \in 1..MaxRequests : \A j \in 1..MaxRequests :
    ( i # j /\ reqs[i].id # "" /\ reqs[i].id = reqs[j].id ) =>
      /\ ( reqs[i].resp # "" /\ reqs[j].resp # "" ) => reqs[i].resp = reqs[j].resp
      /\ ~( reqs[i].dep # "" /\ reqs[j].dep # "" )

\* The primary records and the reverse index agree
IndexConsistent ==
  /\ \A addr \in DOMAIN accByAddr :
       /\ accByAddr[addr] \in DOMAIN accById
       /\ accById[accByAddr[addr]].DepositAddr = addr
  /\ \A id \in DOMAIN accById :
       Cardinality({ addr \in DOMAIN accByAddr : accByAddr[addr] = id }) = 1
  /\ \A id1 \in DOMAIN accById : \A id2 \in DOMAIN accById :
       accById[id1].DepositAddr = accById[id2].DepositAddr => id1 = id2

\* C20: after every insert the primary records and the reverse index
\* agree, and the deposit address of an account never changes.
C20_IndexAgreesWithAccounts ==
  [][ /\ IndexConsistent'
      /\ \A id \in DOMAIN accById :
           id \in DOMAIN accById' /\ accById'[id].DepositAddr = accById[id].DepositAddr ]_vars

\* ------------------------------------------------------------------------
\* State store contract
\* ------------------------------------------------------------------------
\* Records a caller can pass to the store: the deposits of the accounts,
\* with different amounts and in different states
Jobs ==
  { [ NewDeposit(a, [ hash |-> h, to |-> a.DepositAddr, value |-> c.v ]) EXCEPT !.State = c.s ] :
      a \in Accounts, h \in { "0xT1", "0xT2", "0xT5" },
      c \in { [ v |-> 3, s |-> StateSrcTxDiscovered ], [ v |-> 4, s |-> StateDstTxBuilt ] } }

JobsById == [ id \in WfIds |-> { job \in Jobs : job.ID = id } ]

\* The records a caller can pass under key id
JobsOf(id) == JobsById[id]

\* C21: on every reachable store, PutIfAbsent(w) followed by PutIfAbsent(w2)
\* with the same id leaves one record under the id, the stored one if there
\* was one and w otherwise; the second call changes nothing, also when the
\* record was overwritten by Put in between; no other key is touched.
C21_PutIfAbsentKeepsFirst ==
  \A id \in WfIds :
    \A w \in JobsOf(id) : \A w2 \in JobsOf(id) :
      LET first == PutIfAbsent(store, w)
          second == PutIfAbsent(first, w2)
          snap == Snapshot(second)
      IN /\ DOMAIN first = DOMAIN store \cup { id }
         /\ first[id] = IF id \in DOMAIN store THEN store[id] ELSE w
         /\ \A k \in DOMAIN store : first[k] = store[k]
         /\ second = first
         /\ Cardinality({ i \in 1..Len(snap) : snap[i].ID = id }) = 1
         /\ \A u \in JobsOf(id) :
              /\ Put(first, u)[id] = u
              /\ PutIfAbsent(Put(first, u), w2) = Put(first, u)

\* The store holds a record that the engine rewrote after a failed
\* attempt, and a key of the chain is still absent
C21_Witness ==
  /\ \E w \in Stored : store[w].Attempts > 0 /\ store[w].Error # ""
  /\ \E id \in WfIds : id \notin Stored /\ Cardinality(JobsOf(id)) > 1

\* ------------------------------------------------------------------------
\* Runs of one workflow against scripted chain adapters
\* ------------------------------------------------------------------------
\* The adapters of the transition tests: every call succeeds and reports
\* confirmation at once ("all_ok"); under "reject_once" the first call of
\* dst.is_confirmed returns ErrorRejectedTransaction.  nconf is the number
\* of calls of dst.is_confirmed made before.
Script(name, op, nconf) ==
  CASE op = "dst.build_send" -> Result("ok", "raw_dst", "", FALSE)
    [] op = "dst.broadcast" -> Result("ok", "", "0xdsthash", TRUE)
    [] op = "dst.is_confirmed" ->
         IF name = "reject_once" /\ nconf = 0
         THEN Result("rejected", "", "", FALSE)
         ELSE Result("true", "", "", FALSE)
    [] op = "src.build_sweep" -> Result("ok", "raw_sweep", "", FALSE)
    [] op = "src.broadcast" -> Result("ok", "", "0xsweephash", TRUE)
    [] op = "src.is_confirmed" -> Result("true", "", "", FALSE)
    [] OTHER -> NoCall

\* The record as a tick reads it once its backoff window has elapsed
Ready(wf) == [ wf EXCEPT !.since = Backoff(wf.Attempts) ]

\* Longest run of visits followed
MaxVisits == 12

\* The visits of the engine to one workflow under a script, until the
\* workflow is terminal: the adapter operation of each visit ("" when the
\* visit calls no adapter: the attempts are used up, or the hot wallet of
\* the chain is not found) and the record the visitor holds when it returns.
RECURSIVE Trace(_, _, _, _, _)
Trace(wallets, name, wf, nconf, fuel) ==
  IF fuel = 0 \/ IsTerminal(wf.State) THEN << >>
  ELSE LET found == CASE AdapterOp(wf.State) \in { "dst.build_send", "dst.broadcast" } ->
                            GetHotWallet(wallets, wf.DstChain)
                       [] AdapterOp(wf.State) = "src.build_sweep" ->
                            GetHotWallet(wallets, wf.SrcChain)
                       [] OTHER -> TRUE
           op == IF VisitKind(Ready(wf)) = "transition" /\ found
                 THEN AdapterOp(wf.State) ELSE ""
           v == Visitor(wallets, Ready(wf), Script(name, op, nconf)).wf
       IN << [ op |-> op, wf |-> v ] >> \o
          Trace(wallets, name, v, IF op = "dst.is_confirmed" THEN nconf + 1 ELSE nconf, fuel - 1)

\* The states of the records of a trace
StatesOf(tr) == [ i \in 1..Len(tr) |-> tr[i].wf.State ]

\* C22: with dst.is_confirmed rejecting on its first call and every other
\* adapter call succeeding, a workflow in DstTxSent goes through
\* DstTxRejected, DstTxResend, DstTxBuilt (the destination payload is built
\* again), DstTxSent, DstTxConfirmed, then the sweep, and ends in Done;
\* SweepTxBuilt is entered once.
C22_RejectedDstIsRebuiltAndResent ==
  \A w \in Stored :
    ( store[w].State = StateDstTxSent /\ store[w].Attempts < MaxAttempts ) =>
      LET tr == Trace(hotWallets, "reject_once", store[w], 0, MaxVisits) IN
      /\ StatesOf(tr) =
           << StateDstTxRejected, StateDstTxResend, StateDstTxBuilt, StateDstTxSent,
              StateDstTxConfirmed, StateSweepTxBuilt, StateSweepTxSent,
              StateSweepTxConfirmed, StateDone >>
      /\ tr[3].op = "dst.build_send" /\ tr[3].wf.UnsignedDstTx = "raw_dst"
      /\ tr[4].op = "dst.broadcast" /\ tr[4].wf.SentDstTxHash = "0xdsthash"
      /\ Cardinality({ i \in 1..Len(tr) : tr[i].wf.State = StateSweepTxBuilt }) = 1
      /\ \A i \in 1..Len(tr) : tr[i].wf.Attempts = store[w].Attempts

\* C23: with every adapter call succeeding and confirmations reported at
\* once, a workflow created in SrcTxDiscovered (on chains that both have a
\* hot wallet, so that the adapters are called) goes, one state per visit,
\* through SrcTxConfirmed, DstTxBuilt, DstTxSent, DstTxConfirmed,
\* SweepTxBuilt, SweepTxSent, SweepTxConfirmed to Done, and each payload and
\* hash is set by the visit that enters the corresponding state.
C23_HappyPath ==
  \A w \in Stored :
    ( /\ store[w].State = StateSrcTxDiscovered
      /\ store[w].Attempts = 0
      /\ GetHotWallet(hotWallets, store[w].SrcChain)
      /\ GetHotWallet(hotWallets, store[w].DstChain) ) =>
      LET tr == Trace(hotWallets, "all_ok", store[w], 0, MaxVisits) IN
      /\ StatesOf(tr) =
           << StateSrcTxConfirmed, StateDstTxBuilt, StateDstTxSent, StateDstTxConfirmed,
              StateSweepTxBuilt, StateSweepTxSent, StateSweepTxConfirmed, StateDone >>
      /\ \A i \in 1..Len(tr) :
           /\ tr[i].wf.UnsignedDstTx = IF i >= 2 THEN "raw_dst" ELSE ""
           /\ tr[i].wf.SentDstTxHash = IF i >= 3 THEN "0xdsthash" ELSE ""
           /\ tr[i].wf.UnsignedSweepTx = IF i >= 5 THEN "raw_sweep" ELSE ""
           /\ tr[i].wf.SentSweepTxHash = IF i >= 6 THEN "0xsweephash" ELSE ""

\* ------------------------------------------------------------------------
\* Bookkeeping of the visitor
\* ------------------------------------------------------------------------
\* The step is a visit of w in which TransitionDeposit is called and
\* returns an error: the adapter returns a failure or reports missing
\* confirmations, or no hot wallet is found and no adapter is called
FailedVisitOf(w) ==
  /\ VisitOf(w)
  /\ VisitKind(Head(scan)) = "transition"
  /\ lastVisit'.id = w
  /\ \E out \in Results(Head(scan)) :
       /\ out.res = lastVisit'.res
       /\ TransitionDeposit(hotWallets, Head(scan), out).err # ""

\* C24: a visit whose transition returns an error persists the workflow
\* with attempts one higher, the error text as last error and UpdatedAt at
\* the tick time; the state, both payloads, both hashes and every other
\* field are as they were.
C24_ErrorCountsOneAttempt ==
  [][ \A w \in Stored :
        FailedVisitOf(w) =>
          /\ store'[w].Attempts = store[w].Attempts + 1
          /\ store'[w].Error # ""
          /\ \E out \in Results(Head(scan)) :
               out.res = lastVisit'.res /\ store'[w].Error = TransitionDeposit(hotWallets, Head(scan), out).err
          /\ store'[w].since = 0
          /\ store'[w].State = store[w].State
          /\ store'[w].UnsignedDstTx = store[w].UnsignedDstTx
          /\ store'[w].SentDstTxHash = store[w].SentDstTxHash
          /\ store'[w].UnsignedSweepTx = store[w].UnsignedSweepTx
          /\ store'[w].SentSweepTxHash = store[w].SentSweepTxHash
          /\ [ store'[w] EXCEPT !.Attempts = 0, !.Error = "", !.since = 0 ] =
               [ store[w] EXCEPT !.Attempts = 0, !.Error = "", !.since = 0 ] ]_vars

\* The broadcast of a sweep failed for a workflow that had failed before
C24_Witness ==
  /\ engine = "scanning"
  /\ lastVisit.op = "src.broadcast" /\ lastVisit.res = "err"
  /\ lastVisit.id \in Stored
  /\ store[lastVisit.id].Attempts >= 2
  /\ store[lastVisit.id].State = StateSweepTxBuilt
  /\ store[lastVisit.id].since = 0

BackoffShape ==
  /\ Backoff(0) = 1
  /\ Backoff(6) = 64 /\ Backoff(7) = 120
  /\ Backoff(10) = 120
  /\ \A k \in 0..12 : Backoff(k) <= 120 /\ Backoff(k) <= Backoff(k + 1)

\* The visit of the step called TransitionDeposit
TransitionInvoked == lastVisit'.op \notin { "terminal", "exhausted", "backoff" }

\* The visit of w left everything about w as it was: no adapter call, no write
Untouched(w) ==
  /\ store'[w] = store[w]
  /\ calls'[w] = calls[w]
  /\ dstAccepted'[w] = dstAccepted[w]
  /\ dstNonceAge'[w] = dstNonceAge[w]

\* C26: a tick calls the transition of a workflow only when now - UpdatedAt
\* is at least backoff(attempts), and leaves untouched every workflow that
\* is inside its backoff window; backoff(0) is 1 s, backoff never
\* decreases and never exceeds 120 s.
C26_BackoffWindowUntouched ==
  [][ /\ BackoffShape
      /\ \A w \in Stored :
           VisitOf(w) =>
             /\ TransitionInvoked => Head(scan).since >= Backoff(Head(scan).Attempts)
             /\ Head(scan).since < Backoff(Head(scan).Attempts) => Untouched(w) ]_vars

\* C26 as amended: a tick calls the transition of a workflow only when
\* now - UpdatedAt is at least backoff(attempts); a non-terminal workflow
\* inside its backoff window is left untouched while attempts is below
\* max_attempts, and is moved to Failed with "retries exhausted", without
\* any adapter call, once attempts has reached max_attempts.
C26_BackoffWindowUntouchedBelowCap ==
  [][ /\ BackoffShape
      /\ \A w \in Stored :
           VisitOf(w) =>
             /\ TransitionInvoked => Head(scan).since >= Backoff(Head(scan).Attempts)
             /\ ( /\ Head(scan).since < Backoff(Head(scan).Attempts)
                  /\ Head(scan).Attempts < MaxAttempts ) => Untouched(w)
             /\ ( /\ ~IsTerminal(Head(scan).State)
                  /\ Head(scan).Attempts >= MaxAttempts ) =>
                  /\ ~TransitionInvoked /\ calls'[w] = calls[w]
                  /\ store'[w].State = StateFailed
                  /\ store'[w].Error = "retries exhausted" ]_vars

\* A tick skipped a workflow that had failed and was inside its backoff window
C26_Witness ==
  /\ engine = "scanning"
  /\ lastVisit.op = "backoff"
  /\ lastVisit.id \in Stored
  /\ store[lastVisit.id].Attempts \in 2..(MaxAttempts - 1)
  /\ store[lastVisit.id].since > 0
  /\ store[lastVisit.id].since < Backoff(store[lastVisit.id].Attempts)

\* C27: a workflow is moved to Failed with "retries exhausted" only after
\* max_attempts transition errors in a row in the state it is in; errors
\* made in earlier states do not count towards the cap.
C27_OnlyConsecutiveErrorsExhaust ==
  [][ \A w \in Stored :
        ( /\ VisitOf(w)
          /\ store[w].State # StateFailed
          /\ store'[w].State = StateFailed
          /\ store'[w].Error = "retries exhausted" ) =>
          nvisits[w] >= MaxAttempts ]_vars

\* The transaction is skipped by ProcessBlock: a contract deployment or a
\* payment to an address that is no deposit address
Skipped(tx) == tx.to = "nil" \/ tx.to \notin { a.DepositAddr : a \in Accounts }

\* seq without its i-th element
Without(seq, i) == SubSeq(seq, 1, i - 1) \o SubSeq(seq, i + 1, Len(seq))

\* C28: on every reachable store, a transaction with no recipient or with
\* a recipient that is not a deposit address leaves the store as it is, and
\* the transactions around it are processed as if it were not in the block.
C28_UnknownRecipientSkipped ==
  \A b \in 1..Len(blocks) :
    \A i \in 1..Len(blocks[b]) :
      Skipped(blocks[b][i]) =>
        /\ ProcessTx(store, blocks[b][i]) = store
        /\ ProcessTxs(store, blocks[b]) = ProcessTxs(store, Without(blocks[b], i))
        /\ \A c \in 1..Len(blocks) :
             /\ ProcessTxs(store, << blocks[b][i] >> \o blocks[c]) = ProcessTxs(store, blocks[c])
             /\ ProcessTxs(<< >>, << blocks[b][i] >> \o blocks[c]) = ProcessTxs(<< >>, blocks[c])

\* A block that holds a contract deployment next to a deposit was
\* processed: the deposit has its workflow
C28_Witness ==
  \E b \in 1..Len(blocks) :
    \E i \in 1..Len(blocks[b]) : \E j \in 1..Len(blocks[b]) :
      /\ blocks[b][i].to = "nil"
      /\ ~Skipped(blocks[b][j])
      /\ DepositId(blocks[b][j].to, blocks[b][j].hash) \in Stored

\* ------------------------------------------------------------------------
\* The scan of the engine under store failures and cancellation
\* ------------------------------------------------------------------------
\* The chain adapters of a run in which every call succeeds
HappyRun(a, tx) == Trace(HotWallets, "all_ok", NewDeposit(a, tx), 0, MaxVisits)

\* The chain of the runs of the scan: one block with one deposit
ScanChains == { << << [ hash |-> "0xT6", to |-> "D3", value |-> 3 ] >> >> }

\* Earlier deposits whose records the bucket can hold at the start
LateDeposits ==
  { [ hash |-> "0xT1", to |-> "D1", value |-> 3 ],
    [ hash |-> "0xT2", to |-> "D2", value |-> 4 ] }

\* Records earlier deposits left in the bucket: the last two records of
\* such a run (for want of a hot wallet, the attempts used up and the
\* deposit failed)
LateRecords ==
  UNION { LET tr == HappyRun(CHOOSE a \in GetByDepositAddress(tx.to) : TRUE, tx)
          IN { tr[k].wf : k \in ( Len(tr) - 1 )..Len(tr) } :
          tx \in LateDeposits }

WellKeyed(st) == \A k \in DOMAIN st : st[k].ID = k

\* The buckets the agent can be started on: records of some of the
\* earlier deposits
ScanStores ==
  { st \in UNION { [ S -> LateRecords ] :
                     S \in SUBSET { DepositId(tx.to, tx.hash) : tx \in LateDeposits } } :
      WellKeyed(st) }

\* The engine NewStateMachine builds on a bucket that holds records of an
\* earlier run, one of stores, when the chain holds one of chains
EngineAt(chains, stores) ==
  /\ hotWallets = HotWallets
  /\ blocks \in chains
  /\ store \in stores
  /\ engine = "waiting"
  /\ scan = << >>
  /\ crashes = 0
  /\ calls = [ w \in WfIds |-> {} ]
  /\ visited = [ w \in WfIds |-> IF w \in DOMAIN store THEN { store[w].State } ELSE {} ]
  /\ nvisits = [ w \in WfIds |-> 0 ]
  /\ lastVisit = NoVisit
  /\ snap0 = << >>
  /\ seen = << >>
  /\ dstAccepted = [ w \in WfIds |-> 0 ]
  /\ dstNonceAge = [ w \in WfIds |-> -1 ]
  /\ dstNonceChanged = [ w \in WfIds |-> FALSE ]
  /\ dstSurplus = [ w \in WfIds |-> 0 ]

\* The engine started on a bucket that holds earlier deposits, the
\* publisher having placed every block of the chain on its channel
ScanStart ==
  /\ EngineAt(ScanChains, ScanStores)
  /\ PubPublished(1, Len(blocks))
  /\ ApiIdle /\ KeyIdle /\ EvmIdle

ScanNext ==
  \/ DispBlock
  \/ ProcessBlock
  \/ ProcessBlockFails
  \/ Tick
  \/ Visit
  \/ ScanEnd
  \/ Cancel
  \/ StartCancelled
  \/ ScanFails
  \/ ScanCancelled
  \/ VisitPutFails
  \/ ExitInVisit
  \/ EngineFatal
  \/ ApiFatal
  \/ PubReturn
  \/ PubFatal
  \/ DispStop

ScanSpec == ScanStart /\ [][ScanNext]_vars

\* The bucket of an agent that is started again long after an earlier run
\* processed the first block of PubChain: the deposit of that block has
\* used up its attempts, for want of a hot wallet on its destination chain
PubStores ==
  { Aged(st, MaxAge, << >>) :
      st \in { s \in ScanStores : /\ DOMAIN s = { DepositId("D1", "0xT1") }
                                  /\ ~IsTerminal(s[DepositId("D1", "0xT1")].State) } }

\* The agent as main starts it on that bucket
PubStart ==
  /\ EngineAt({ PubChain }, PubStores)
  /\ PubInit(0..2)
  /\ ApiIdle /\ KeyIdle /\ EvmIdle

PubSpec == PubStart /\ [][PubNext]_vars

\* The same agent, started when the chain has all its blocks but the last
PubLiveStart ==
  /\ EngineAt({ PubChain }, PubStores)
  /\ PubInit({ MaxHead - 1 })
  /\ ApiIdle /\ KeyIdle /\ EvmIdle

\* Every step of the publisher is taken when it stays possible, a select
\* with a ready ctx.Done() case picks it sooner or later, and main, back in
\* its select, returns once the channels are closed.  How soon main takes
\* its own ctx.Done() case, and what the engine does, is left open.
PubLiveSpec ==
  /\ PubLiveStart /\ [][PubNext]_vars
  /\ WF_vars(PubStartup) /\ WF_vars(PubFetch)
  /\ SF_vars(PubReturn) /\ SF_vars(PubSendCancelled)
  /\ WF_vars(ProcessBlock) /\ WF_vars(DispStop /\ closed)

\* The elements of a sequence
Range(q) == { q[i] : i \in 1..Len(q) }

\* What a step does to the scan in progress, the exit of the process
\* aside.  Scan reads the bucket as it was when the scan began and calls
\* the visitor once on each of its records, in key order: the keys visited
\* so far followed by the keys still to visit are the keys of that
\* snapshot, also when ProcessBlock or the visitor writes to the bucket
\* meanwhile, and a record created during the scan is not visited by it.
\* The visitor works on a copy: when its Put fails the changes it made are
\* not in the store.  An error of the visitor ends the scan with that call.
\* With the context cancelled, and left holding, the visitor is not called
\* any more and the scan does not end without an error.  A scan ends before
\* it has visited every record only with an error: of the visitor, of the
\* context or of its own (a record that does not decode).
ScanContract(left) ==
  \/ engine' = "stopped"
  \/ /\ ( engine = "waiting" /\ engine' = "scanning" ) =>
          /\ scan' = Snapshot(store')
          /\ snap0' = Keys(scan')
          /\ seen' = << >>
     /\ engine' = "scanning" =>
          /\ seen' \o Keys(scan') = snap0'
          /\ Cardinality(Range(snap0')) = Len(snap0')
     /\ ( engine = "scanning" /\ engine' = "scanning" ) =>
          /\ snap0' = snap0
          /\ \/ scan' = scan /\ seen' = seen
             \/ /\ scan' = Tail(scan)
                /\ seen' = Append(seen, Head(scan).ID)
                /\ lastVisit'.id = Head(scan).ID
     /\ ( engine = "scanning" /\ engine' = "waiting" ) => seen = snap0
     /\ seen' # seen /\ seen' # << >> =>
          /\ ~cancelled
          /\ engine = "scanning"
          /\ seen' = Append(seen, Head(scan).ID)
          /\ \A k \in DOMAIN store : k # Head(scan).ID => store'[k] = store[k]
          /\ engine' = "returned" => store' = store
     /\ ( engine = "scanning" /\ engine' = "returned" ) =>
          \/ cancelled /\ scan # << >> /\ seen' = seen
          \/ ~cancelled /\ seen' = Append(seen, Head(scan).ID) /\ lastVisit'.id = Head(scan).ID
          \/ /\ ~cancelled /\ scan # << >> /\ seen' = seen /\ store' = store
             /\ lastVisit' = [ id |-> "", op |-> "scan", res |-> "err" ]
     /\ ( engine = "scanning" /\ cancelled /\ left ) =>
          ( engine' = "scanning" \/ engine' = "returned" ) /\ seen' = seen
     /\ engine = "returned" => engine' = "returned" /\ seen' = seen

\* C32 as claimed: the scan calls the visitor once on every record of the
\* snapshot taken when it began, each time on a copy; an error of the
\* visitor or a cancelled context ends the scan with an error, and a
\* context cancelled before the scan yields no call of the visitor.
C32_CancelledScanReturnsError == [][ScanContract(TRUE)]_vars

\* C32 as amended: the same, but a cancelled context ends the scan with an
\* error only while a record is left to visit; a scan with no record left
\* returns nil also when the context is cancelled.
C32_ScanVisitsSnapshotOnce == [][ScanContract(scan # << >>)]_vars

\* A scan has visited every record of its snapshot, two or more, while a
\* record created after the scan began is in the bucket and was not visited
C32_Witness ==
  /\ engine = "scanning"
  /\ scan = << >>
  /\ Len(seen) >= 2
  /\ seen = snap0
  /\ \E k \in DOMAIN store : k \notin Range(snap0) /\ store[k].State = StateSrcTxDiscovered

\* C39: when Scan, or the Put the visitor issues for a record, returns an
\* error, the scan ends there: the store is left as the earlier visits of
\* the tick wrote it, the records not yet visited keep their stored state,
\* and Start returns; after that it makes no tick, no visit and no adapter
\* call, and no stored record changes (of every step but the exit of the
\* process).
C39_StoreErrorStopsEngine ==
  [][ \/ engine' = "stopped"
      \/ /\ ( /\ seen' # seen /\ seen' # << >>
              /\ lastVisit'.op \notin { "terminal", "backoff" }
              /\ store' = store ) =>
              engine' = "returned" /\ scan' = << >>
         /\ lastVisit' = [ id |-> "", op |-> "scan", res |-> "err" ] =>
              engine' = "returned" /\ scan' = << >> /\ seen' = seen
         /\ ( engine # "returned" /\ engine' = "returned" ) => store' = store
         /\ engine = "returned" =>
              /\ engine' = "returned"
              /\ scan' = scan /\ seen' = seen /\ calls' = calls
              /\ lastVisit' = lastVisit
              /\ \A k \in DOMAIN store : store'[k] = store[k] ]_vars

\* Start returned on the failed Put of the second record of a tick: the
\* first was rewritten in that tick, a third was not visited and is not
\* terminal
C39_Witness ==
  /\ engine = "returned"
  /\ ~cancelled
  /\ Len(seen) = 2
  /\ Len(snap0) = 3
  /\ lastVisit.id = seen[2]
  /\ store[seen[1]].since = 0
  /\ store[seen[2]].since > 0
  /\ ~IsTerminal(store[snap0[3]].State)

\* ------------------------------------------------------------------------
\* Key store: LocalKeyStore.SignTx and SignHash
\* ------------------------------------------------------------------------
\* Concurrent signing calls followed
MaxSigners == 2

\* Addresses a caller passes: the two keys held and one the store lacks
SignAddrs == KeyHolds \cup { "0xdEaD" }

\* keystore.TimedUnlock decrypts the key file with the passphrase of the
\* store; the key imported under another password does not decrypt
Decrypts(addr) == addr = "0xK1"

\* A signing call that locks the key only when the signature was made
Relocks_OnSuccessOnly(res) == res = "ok"

\* defer l.ks.Lock(account.Address): registered once TimedUnlock returned
\* nil, it runs on every return that follows
Relocks(res) == TRUE

KeyInit ==
  /\ unlocked = [ a \in KeyHolds |-> 0 ]
  /\ sigs = [ i \in 1..MaxSigners |-> NoSig ]

\* A caller enters SignTx or SignHash
SignCall(i) ==
  /\ sigs[i].pc = "idle"
  /\ \E op \in { "SignTx", "SignHash" }, a \in SignAddrs :
       sigs' = [ sigs EXCEPT ![i] = [ NoSig EXCEPT !.pc = "get", !.op = op, !.addr = a ] ]
  /\ UNCHANGED unlocked
  /\ UNCHANGED << coreVars, pubVars, apiVars, evmVars >>

\* l.get: an address HasAddress does not know is answered "address not
\* found"; for a known one l.ks.Find returns the account, or an error (the
\* key file went away since HasAddress, or the address matches several
\* files) that the call returns before anything is unlocked
SignGet(i) ==
  /\ sigs[i].pc = "get"
  /\ \E found \in { TRUE, FALSE } :
       sigs' = [ sigs EXCEPT ![i] =
                   IF sigs[i].addr \notin KeyHolds
                   THEN [ @ EXCEPT !.pc = "done", !.res = "address not found" ]
                   ELSE IF found
                        THEN [ @ EXCEPT !.pc = "unlock" ]
                        ELSE [ @ EXCEPT !.pc = "done", !.res = "find error" ] ]
  /\ UNCHANGED unlocked
  /\ UNCHANGED << coreVars, pubVars, apiVars, evmVars >>

\* l.ks.TimedUnlock: on success the entry of the address is replaced by a
\* new one; on an error the call returns
SignUnlock(i) ==
  /\ sigs[i].pc = "unlock"
  /\ \E ok \in { TRUE, FALSE } :
       IF ok /\ Decrypts(sigs[i].addr)
       THEN /\ unlocked' = [ unlocked EXCEPT ![sigs[i].addr] = i ]
            /\ sigs' = [ sigs EXCEPT ![i] = [ @ EXCEPT !.pc = "sign" ] ]
       ELSE /\ unlocked' = unlocked
            /\ sigs' = [ sigs EXCEPT ![i] = [ @ EXCEPT !.pc = "done", !.res = "unlock error" ] ]
  /\ UNCHANGED << coreVars, pubVars, apiVars, evmVars >>

\* l.ks.SignTxWithPassphrase or SignHashWithPassphrase returns
SignSign(i) ==
  /\ sigs[i].pc = "sign"
  /\ \E r \in { "ok", "sign error" } :
       sigs' = [ sigs EXCEPT ![i] =
                   [ @ EXCEPT !.pc = IF Relocks(r) THEN "lock" ELSE "done", !.res = r ] ]
  /\ UNCHANGED unlocked
  /\ UNCHANGED << coreVars, pubVars, apiVars, evmVars >>

\* keystore.Lock reads the entry of the address
SignLockRead(i) ==
  /\ sigs[i].pc = "lock"
  /\ sigs' = [ sigs EXCEPT ![i] =
                 IF unlocked[sigs[i].addr] = 0
                 THEN [ @ EXCEPT !.pc = "done" ]
                 ELSE [ @ EXCEPT !.pc = "expire", !.unl = unlocked[sigs[i].addr] ] ]
  /\ UNCHANGED unlocked
  /\ UNCHANGED << coreVars, pubVars, apiVars, evmVars >>

\* keystore.Lock expires the entry it read: the key is dropped when that
\* entry is still the current one, and the call returns
SignLockExpire(i) ==
  /\ sigs[i].pc = "expire"
  /\ unlocked' = IF unlocked[sigs[i].addr] = sigs[i].unl
                 THEN [ unlocked EXCEPT ![sigs[i].addr] = 0 ]
                 ELSE unlocked
  /\ sigs' = [ sigs EXCEPT ![i] = [ @ EXCEPT !.pc = "done" ] ]
  /\ UNCHANGED << coreVars, pubVars, apiVars, evmVars >>

\* The unlock duration of an entry runs out
KeyExpire(a) ==
  /\ unlocked[a] # 0
  /\ unlocked' = [ unlocked EXCEPT ![a] = 0 ]
  /\ UNCHANGED sigs
  /\ UNCHANGED << coreVars, pubVars, apiVars, evmVars >>

KeyNext ==
  \/ \E i \in 1..MaxSigners : SignCall(i)
  \/ \E i \in 1..MaxSigners : SignGet(i)
  \/ \E i \in 1..MaxSigners : SignUnlock(i)
  \/ \E i \in 1..MaxSigners : SignSign(i)
  \/ \E i \in 1..MaxSigners : SignLockRead(i)
  \/ \E i \in 1..MaxSigners : SignLockExpire(i)
  \/ \E a \in KeyHolds : KeyExpire(a)

KeyStart == EngineIdle /\ PubIdle /\ ApiIdle /\ KeyInit /\ EvmIdle

KeySpec == KeyStart /\ [][KeyNext]_vars

\* The signing calls in progress on an address
Signing(a) == { i \in 1..MaxSigners : sigs[i].addr = a /\ sigs[i].pc \notin { "idle", "done" } }

\* C33: when no signing call is in progress on an address its key is
\* locked, whatever the calls returned and however they were interleaved; a
\* call that returns through the deferred Lock leaves the key locked at that
\* moment unless another call unlocked it meanwhile; a call with an address
\* the store does not hold returns an error and unlocks nothing.
C33_KeyLockedAfterSigning ==
  [][ /\ \A a \in KeyHolds : Signing(a) = {} => unlocked[a] = 0
      /\ \A a \in KeyHolds : Signing(a)' = {} => unlocked'[a] = 0
      /\ \A i \in 1..MaxSigners :
           /\ ( sigs[i].pc = "lock" /\ sigs'[i].pc = "done" ) => unlocked'[sigs[i].addr] = 0
           /\ ( sigs[i].pc = "expire" /\ sigs'[i].pc = "done" ) =>
                unlocked'[sigs[i].addr] \notin { i, sigs[i].unl }
           /\ ( sigs[i].pc = "get" /\ sigs[i].addr \notin KeyHolds /\ sigs'[i] # sigs[i] ) =>
                /\ sigs'[i].pc = "done"
                /\ sigs'[i].res = "address not found"
                /\ unlocked' = unlocked
           /\ ( sigs[i].pc = "get" /\ sigs'[i].pc = "done" ) =>
                /\ sigs'[i].res \in { "address not found", "find error" }
                /\ unlocked' = unlocked
           /\ ( sigs[i].pc = "done" /\ sigs[i].res \in { "address not found", "find error" } ) =>
                sigs[i].unl = 0 ]_vars

\* Two calls on one key have both returned, the second's signature failed
\* after the first had unlocked and locked the key, and the key is locked
C33_Witness ==
  /\ sigs[1].pc = "done" /\ sigs[2].pc = "done"
  /\ sigs[1].addr = "0xK1" /\ sigs[2].addr = "0xK1"
  /\ sigs[1].res = "ok" /\ sigs[2].res = "sign error"
  /\ sigs[1].unl = 2
  /\ unlocked["0xK1"] = 0

\* ------------------------------------------------------------------------
\* EVM adapter: EvmCtx.IsTxConfirmed and EvmCtx.BuildSweepTx
\* ------------------------------------------------------------------------
\* Highest block number of a receipt, highest gas price (wei) followed
MaxBlock == 2
MaxGasPrice == 2

\* sm.minConfirmations
MinConfirmations == 14

\* const ethTransferGas
EthTransferGas == 21000

\* types.ReceiptStatusSuccessful
ReceiptStatusSuccessful == 1

\* What the node can answer: which lookup fails ("receipt": the receipt is
\* not found), the pending nonce and the balance of the sender, the
\* suggested gas price, the status and the block of the receipt, the head
EvmWorlds ==
  [ fail : { "none", "nonce", "balance", "gasPrice", "receipt", "head" },
    nonce : { 0, 3 },
    balance : { k * EthTransferGas + d : k \in 0..MaxGasPrice, d \in 0..1 } \cup
              { k * EthTransferGas - 1 : k \in 1..MaxGasPrice },
    gasPrice : 0..MaxGasPrice,
    status : { 0, ReceiptStatusSuccessful },
    rblock : { 0, MaxBlock },
    head : ( MinConfirmations - 1 )..( MaxBlock + MinConfirmations + 1 ) ]

Return(op, ok, err, tx) == [ op |-> op, ok |-> ok, err |-> err, tx |-> tx ]

\* A confirmation check that looks at the depth before the status
EvmIsTxConfirmed_DepthFirst(w, minConfirmations) ==
  IF w.fail = "receipt"
  THEN Return("is_confirmed", FALSE, "error getting receipt", << >>)
  ELSE IF w.fail = "head"
  THEN Return("is_confirmed", FALSE, "error getting latest block number", << >>)
  ELSE IF w.head < w.rblock + minConfirmations
  THEN Return("is_confirmed", FALSE, "", << >>)
  ELSE IF w.status # ReceiptStatusSuccessful
  THEN Return("is_confirmed", FALSE, "ErrorRejectedTransaction", << >>)
  ELSE Return("is_confirmed", TRUE, "", << >>)

\* EvmCtx.IsTxConfirmed
EvmIsTxConfirmed(w, minConfirmations) ==
  IF w.fail = "receipt"
  THEN Return("is_confirmed", FALSE, "error getting receipt", << >>)
  ELSE IF w.status # ReceiptStatusSuccessful
  THEN Return("is_confirmed", FALSE, "ErrorRejectedTransaction", << >>)
  ELSE IF w.fail = "head"
  THEN Return("is_confirmed", FALSE, "error getting latest block number", << >>)
  ELSE IF w.head < w.rblock + minConfirmations
  THEN Return("is_confirmed", FALSE, "", << >>)
  ELSE Return("is_confirmed", TRUE, "", << >>)

\* A sweep builder that accepts a balance equal to the gas cost
EvmBuildSweepTx_AllowsZero(w, to) ==
  IF w.fail \in { "nonce", "balance", "gasPrice" }
  THEN Return("build_sweep", FALSE, "lookup error", << >>)
  ELSE LET gasCost == w.gasPrice * EthTransferGas IN
       IF w.balance < gasCost
       THEN Return("build_sweep", FALSE, "insufficient balance", << >>)
       ELSE Return("build_sweep", TRUE, "",
                   << [ nonce |-> w.nonce, to |-> to, value |-> w.balance - gasCost,
                        gas |-> EthTransferGas, gasPrice |-> w.gasPrice ] >>)

\* EvmCtx.BuildSweepTx: the transaction it marshals, or the error
EvmBuildSweepTx(w, to) ==
  IF w.fail \in { "nonce", "balance", "gasPrice" }
  THEN Return("build_sweep", FALSE, "lookup error", << >>)
  ELSE LET gasCost == w.gasPrice * EthTransferGas IN
       IF w.balance <= gasCost
       THEN Return("build_sweep", FALSE, "insufficient balance", << >>)
       ELSE Return("build_sweep", TRUE, "",
                   << [ nonce |-> w.nonce, to |-> to, value |-> w.balance - gasCost,
                        gas |-> EthTransferGas, gasPrice |-> w.gasPrice ] >>)

EvmInit ==
  /\ evm \in EvmWorlds
  /\ ret = NoReturn

\* The engine asks whether a transaction it sent is confirmed
CallIsTxConfirmed ==
  /\ ret' = EvmIsTxConfirmed(evm, MinConfirmations)
  /\ UNCHANGED evm
  /\ UNCHANGED << coreVars, pubVars, apiVars, keyVars >>

\* The engine builds the sweep of a deposit address to the hot wallet
CallBuildSweepTx ==
  /\ ret' = EvmBuildSweepTx(evm, "hot")
  /\ UNCHANGED evm
  /\ UNCHANGED << coreVars, pubVars, apiVars, keyVars >>

EvmNext ==
  \/ CallIsTxConfirmed
  \/ CallBuildSweepTx

EvmStart == EngineIdle /\ PubIdle /\ ApiIdle /\ KeyIdle /\ EvmInit

EvmSpec == EvmStart /\ [][EvmNext]_vars

\* The result of the confirmation check as the engine's transition reads it
AsResult(r) ==
  Result(IF r.err = "ErrorRejectedTransaction" THEN "rejected"
         ELSE IF r.err # "" THEN "err"
         ELSE IF r.ok THEN "true" ELSE "false", "", "", FALSE)

\* C34: a confirmation check on the EVM chain returns an error other than
\* the rejection when the receipt is not found; the rejection when the
\* receipt is found with a status that is not success, whatever the head;
\* and with a successful receipt and the head known, true when head >=
\* receipt block + minConfirmations and false with no error otherwise.
\* The engine reads these as its four confirmation results.
C34_EvmConfirmation ==
  ret.op = "is_confirmed" =>
    /\ evm.fail = "receipt" => ~ret.ok /\ ret.err \notin { "", "ErrorRejectedTransaction" }
    /\ ( evm.fail # "receipt" /\ evm.status # ReceiptStatusSuccessful ) =>
         ~ret.ok /\ ret.err = "ErrorRejectedTransaction"
    /\ ( evm.fail \notin { "receipt", "head" } /\ evm.status = ReceiptStatusSuccessful ) =>
         /\ ret.err = ""
         /\ ret.ok <=> evm.head >= evm.rblock + MinConfirmations
    /\ AsResult(ret) \in IsTxConfirmed(Ethereum)

\* The check found a failed receipt that is deep enough to count as
\* confirmed and reported the rejection
C34_Witness ==
  /\ ret.op = "is_confirmed"
  /\ evm.fail = "none"
  /\ evm.status # ReceiptStatusSuccessful
  /\ evm.head >= evm.rblock + MinConfirmations
  /\ ret.err = "ErrorRejectedTransaction"

\* C35: with the three lookups answered, the sweep builder reports an
\* insufficient balance exactly when gasPrice * 21000 >= balance; otherwise
\* it builds a transfer to the hot wallet with gas 21000, the suggested gas
\* price, the pending nonce and value = balance - gasPrice * 21000, so that
\* value plus fee is the balance and the value is positive.
C35_EvmSweepAmount ==
  ( ret.op = "build_sweep" /\ evm.fail \notin { "nonce", "balance", "gasPrice" } ) =>
    /\ ( ~ret.ok /\ ret.err = "insufficient balance" ) <=>
         evm.gasPrice * EthTransferGas >= evm.balance
    /\ ret.ok <=> evm.gasPrice * EthTransferGas < evm.balance
    /\ ret.ok =>
         /\ Len(ret.tx) = 1
         /\ ret.tx[1].gas = 21000
         /\ ret.tx[1].gasPrice = evm.gasPrice
         /\ ret.tx[1].nonce = evm.nonce
         /\ ret.tx[1].to = "hot"
         /\ ret.tx[1].value = evm.balance - evm.gasPrice * 21000
         /\ ret.tx[1].value + ret.tx[1].gas * ret.tx[1].gasPrice = evm.balance
         /\ ret.tx[1].value > 0

\* The builder refused a deposit address whose balance is exactly the fee
\* of the transfer
C35_Witness ==
  /\ ret.op = "build_sweep"
  /\ evm.fail = "none"
  /\ evm.gasPrice > 0
  /\ evm.balance = evm.gasPrice * EthTransferGas
  /\ ~ret.ok
  /\ ret.err = "insufficient balance"

\* ------------------------------------------------------------------------
\* Destination on the settlement chain
\* ------------------------------------------------------------------------
\* The stored workflows whose destination is the settlement chain
HlBound == { w \in Stored : store[w].DstChain = Hyperliquid }

\* C36: for a workflow whose destination is the settlement chain, every
\* confirmation check of the destination credit answers true; the stored
\* record never is in DstTxRejected or DstTxResend, and it enters DstTxBuilt
\* and DstTxSent only from a state it did not have before, that is at most
\* once each, also across kills and restarts of the agent.
C36_HlDestinationNeverRejected ==
  [][ \A w \in HlBound :
        /\ visited[w] \cap { StateDstTxRejected, StateDstTxResend } = {}
        /\ store'[w].State \notin { StateDstTxRejected, StateDstTxResend }
        /\ ( lastVisit'.id = w /\ lastVisit'.op = "dst.is_confirmed" /\ lastVisit' # lastVisit ) =>
             lastVisit'.res = "true"
        /\ \A s \in { StateDstTxBuilt, StateDstTxSent } :
             ( store[w].State # s /\ store'[w].State = s ) => s \notin visited[w] ]_vars

\* A workflow bound for the settlement chain is Done after a failed
\* broadcast of its destination credit
C36_Witness ==
  \E w \in HlBound :
    /\ store[w].State = StateDone
    /\ store[w].Attempts > 0
    /\ { StateDstTxBuilt, StateDstTxSent, StateDstTxConfirmed } \subseteq visited[w]
    /\ "dst.is_confirmed" \in calls[w]

\* ------------------------------------------------------------------------
\* The attempt cap
\* ------------------------------------------------------------------------
\* The stored workflows that are not terminal and have used up their attempts
Exhausted == { w \in Stored : ~IsTerminal(store[w].State) /\ store[w].Attempts >= MaxAttempts }

\* C37: a visit to a workflow that is not terminal and has attempts >=
\* max_attempts moves it to Failed with "retries exhausted", also inside
\* its backoff window, and makes no adapter call; as every tick visits
\* every stored workflow, a workflow that used up its attempts is Failed
\* after the next tick that completes its visit.
C37_CapBeforeBackoff ==
  /\ [][ \A w \in Exhausted :
           VisitOf(w) =>
             /\ lastVisit'.op = "exhausted"
             /\ store'[w].State = StateFailed
             /\ store'[w].Error = "retries exhausted"
             /\ calls'[w] = calls[w]
             /\ dstAccepted'[w] = dstAccepted[w]
             /\ dstNonceAge'[w] = dstNonceAge[w] ]_vars
  /\ \A w \in WfIds : ( w \in Exhausted ) ~> ( w \in Stored /\ store[w].State = StateFailed )

\* A workflow waiting for the confirmation of its destination credit used
\* up its attempts and was moved to Failed by the visit just made, inside
\* the backoff window of the last failure
C37_Witness ==
  \E w \in Stored :
    /\ lastVisit = [ id |-> w, op |-> "exhausted", res |-> "none" ]
    /\ store[w].State = StateFailed
    /\ store[w].Error = "retries exhausted"
    /\ store[w].Attempts = MaxAttempts
    /\ StateDstTxSent \in visited[w]
    /\ StateDstTxConfirmed \notin visited[w]
    /\ Interval < Backoff(MaxAttempts)

\* ------------------------------------------------------------------------
\* Fields of a workflow that are fixed at creation
\* ------------------------------------------------------------------------
\* The fields ProcessBlock sets and nothing writes afterwards
Identity(wf) ==
  << wf.ID, wf.TxHash, wf.DepositAddr, wf.AmountWei, wf.SrcChain, wf.DstChain, wf.DstAddr >>

\* The clock is read in this step: a tick
ClockTicks == engine = "waiting" /\ engine' = "scanning"

\* C38: every stored workflow stays stored, with the id, source
\* transaction hash, deposit address, amount, source chain, destination
\* chain and user destination address it was created with; CreatedAt stays
\* (now - CreatedAt changes only when the clock is read again, and then
\* does not decrease) and UpdatedAt does not decrease (between two
\* readings of the clock now - UpdatedAt does not grow).
C38_IdentityFieldsFixed ==
  [][ \A w \in Stored :
        /\ w \in DOMAIN store'
        /\ Identity(store'[w]) = Identity(store[w])
        /\ store'[w].age >= store[w].age
        /\ store'[w].age # store[w].age => ClockTicks
        /\ ~ClockTicks => store'[w].since <= store[w].since ]_vars

\* The block of a deposit was delivered again after a tick; the workflow,
\* created before that tick, has been advanced by the engine since
C38_Witness ==
  \E w \in Stored :
    /\ store[w].age > 0
    /\ store[w].State = StateDstTxConfirmed
    /\ store[w].Attempts > 0
    /\ store[w].since = 0
    /\ store[w].TxHash = "0xT2"
    /\ store[w].AmountWei = 4
    /\ crashes > 0

\* ------------------------------------------------------------------------
\* Destination broadcasts that returned a hash
\* ------------------------------------------------------------------------
\* C40: while the agent was never killed (store writes succeed in this
\* specification), a dst.broadcast that returns a hash is made from
\* DstTxBuilt and leaves the stored record in DstTxSent; the number of such
\* broadcasts of a workflow never exceeds the number of its entries into
\* DstTxRejected by more than one, so a workflow that was never rejected
\* has at most one.
C40_OneBroadcastPerRejection ==
  [][ crashes' = 0 =>
        \A w \in Stored :
          /\ dstSurplus[w] \in 0..1 /\ dstSurplus'[w] \in 0..1
          /\ StateDstTxRejected \notin visited'[w] =>
               ( dstSurplus'[w] = 1 <=> StateDstTxSent \in visited'[w] )
          /\ ( VisitOf(w) /\ lastVisit'.op = "dst.broadcast" /\ lastVisit'.res = "ok" ) =>
               /\ store[w].State = StateDstTxBuilt
               /\ store'[w].State = StateDstTxSent
               /\ dstSurplus[w] = 0 /\ dstSurplus'[w] = 1 ]_vars

\* A destination credit was rejected and the engine, never killed, has
\* just broadcast the rebuilt one: the second broadcast that returned a hash
C40_Witness ==
  \E w \in Stored :
    /\ crashes = 0
    /\ StateDstTxRejected \in visited[w]
    /\ lastVisit = [ id |-> w, op |-> "dst.broadcast", res |-> "ok" ]
    /\ store[w].State = StateDstTxSent
    /\ dstSurplus[w] = 1

====
